---- MODULE Spec2Model ----
(***************************************************************************)
(* Model of the result-file mergers of util/DHI.Mike1D.MikeIO:             *)
(*   LTSResultMerger (Create, Merge and its stages), the Extreme and       *)
(*   Periodic policies, LTSResultEvents, DataEntry / DataEntryId and the   *)
(*   regular-file ResultMerger.                                            *)
(*                                                                         *)
(* Conventions.  Indices of the C# code are 0-based and are kept 0-based   *)
(* in the operators' parameters (time-step index j, element index e, list  *)
(* index i); TLA+ sequences are 1-based, so the code's x[i] is x[i + 1].   *)
(* Cell values are integer-valued floats, DateTime values are whole        *)
(* seconds counted from the reference label new DateTime(100, 1, 1).       *)
(***************************************************************************)
EXTENDS Integers, Sequences, FiniteSets, TLC

\* ------------------------------------------------------------------ bounds
MaxFiles == 3
MaxSteps == 2
MaxEvents == 3
MaxRegSteps == 3
MaxTimeStepIndex == 3
MaxItems == 3
MaxSiblingItems == 2
MaxMerges == 2
MaxSelfAppendSteps == 2
MaxWideFiles == 2

\* ------------------------------------------------------- program constants
\* new DateTime(100, 1, 1), the origin DateTime values are counted from.
StartLabel == 0
\* Constants.DOUBLE_DELETE_VALUE: a number no cell of an input file holds.
DOUBLE_DELETE_VALUE == -1

VARIABLES
  api,                  \* the static entry point that was called
  call,                 \* the arguments of a method that was called directly
  files,                \* _resultDataCollection; files[1] is _resultData
  files0,               \* history: the collection as it was handed in
  pc,                   \* the statement the call has reached
  error,                \* the exception that ended the call, or "none"
  policy,               \* the merger class the factory created, or "none"
  dataEntries,          \* _dataEntries
  mapIdToDataEntry,     \* _mapIdToDataEntry
  mapIdToResultEvents,  \* _mapIdToResultEvents
  fileIndex,            \* position of the foreach over the collection (1-based)
  refs,                 \* refs[i]: the object that files[i] is a reference to
  paths,                \* paths[i]: files[i].Connection.FilePath.FullFilePath
  mergedFileName,       \* the argument of ResultMerger.Merge
  disk,                 \* the time steps of the file at each path
  disk0,                \* history: disk when the call started
  handles,              \* the file handles AppendToFile holds open
  targetEndTime,        \* local of AppendToFile
  sourcePos,            \* 1-based position of the source handle's file pointer
  result,               \* the ResultData the merge returned, or NoResult
  merges,               \* the calls of Merge() made on the merger so far
  files1                \* history: the collection when the last call began

ltsVars == <<policy, dataEntries, mapIdToDataEntry, mapIdToResultEvents>>

regVars == <<refs, paths, mergedFileName, disk, disk0, handles, targetEndTime,
             sourcePos, result>>

vars == <<api, call, merges, files1, files, files0, pc, error, fileIndex, ltsVars, regVars>>

\* ----------------------------------------------------------------- helpers
Min(a, b) == IF a < b THEN a ELSE b

Max(a, b) == IF a > b THEN a ELSE b

Range(s) == {s[i] : i \in 1..Len(s)}

\* List<T>.RemoveAt(i), i 0-based.
RemoveAt(l, i) == [k \in 1..(Len(l) - 1) |-> IF k <= i THEN l[k] ELSE l[k + 1]]

\* The distance between neighbouring floats at the magnitude a >= 0 of a whole
\* number: 1 up to 2^24, 2 up to 2^25, 4 up to 2^26, ...
RECURSIVE FloatSpacing(_, _)
FloatSpacing(a, s) == IF a <= 16777216 * s THEN s ELSE FloatSpacing(a, 2 * s)

\* (float) of a double holding the whole number a >= 0: the nearest multiple
\* of the spacing, a tie going to the even significand.
FloatOfMagnitude(a) ==
  LET s == FloatSpacing(a, 1)
      q == a \div s
      r == a % s
  IN IF 2 * r < s THEN q * s
     ELSE IF 2 * r > s THEN (q + 1) * s
     ELSE IF q % 2 = 0 THEN q * s ELSE (q + 1) * s

\* (float) of a double holding an integer: exact up to 2^24 in magnitude,
\* rounded to the nearest float beyond, the same for either sign.
FloatOf(v) == IF v < 0 THEN 0 - FloatOfMagnitude(0 - v) ELSE FloatOfMagnitude(v)

\* (int) of a float: truncation toward zero; the cells hold whole numbers.
IntOf(v) == v

\* ------------------------------------------------------ quantities and ids
Quantity(id, description) == [Id |-> id, Description |-> description]

\* ExtraForQuantities: the id takes the bare word, the description ", word".
ExtraForId(extra) == extra

ExtraForDescription(extra) ==
  CASE extra = "Time" -> ", Time"
    [] extra = "Count" -> ", Count"
    [] extra = "Duration" -> ", Duration"
    [] OTHER -> extra

\* LTSResultMerger.Create(quantity, extra): ids and descriptions are strings,
\* modelled as the sequence of their parts, so that + is \o and
\* Contains(", Time") is membership of the part ", Time".
CreateQuantity(quantity, extra) ==
  Quantity(quantity.Id \o <<ExtraForId(extra)>>,
           quantity.Description \o <<ExtraForDescription(extra)>>)

Contains(description, part) == \E i \in 1..Len(description) : description[i] = part

\* DataEntryId(quantityId, itemTypeGroup, numberWithinGroup, elementIndex)
DataEntryIdWithoutElement(quantityId, itemTypeGroup, numberWithinGroup, elementIndex) ==
  <<quantityId, itemTypeGroup, numberWithinGroup, 0>>

DataEntryId(quantityId, itemTypeGroup, numberWithinGroup, elementIndex) ==
  <<quantityId, itemTypeGroup, numberWithinGroup, elementIndex>>

\* DataEntryId(quantityId, entryId): the sibling key.
DataEntryIdSiblingOfFirstElement(quantityId, entryId) ==
  <<quantityId, entryId[2], entryId[3], 0>>

DataEntryIdSibling(quantityId, entryId) ==
  <<quantityId, entryId[2], entryId[3], entryId[4]>>

\* ------------------------------------------------------ result data model
\* A data item: TimeData is a sequence of time steps, each a sequence of
\* NumberOfElements values.  The values of a time step are a float[] object
\* of the engine: SameArray holds the sets of time steps (1-based) that are
\* one such object, none in an item as the engine loads it.  AddKeepsArray
\* tells what TimeData.Add of the engine, which is not in this repository,
\* does with the array it is handed: it keeps it or it copies it.
DataItem(quantity, group, number, ne, data, addKeepsArray) ==
  [Quantity |-> quantity, ItemTypeGroup |-> group, NumberWithinGroup |-> number,
   NumberOfElements |-> ne, TimeData |-> data, SameArray |-> {},
   AddKeepsArray |-> addKeepsArray]

NumberOfTimeSteps(dataItem) == Len(dataItem.TimeData)

\* new DataEntry(dataItem, elementIndex); Item is the reference to the data
\* item, as its position in the owning ResultData.
DataEntry(resultData, item, elementIndex) ==
  [Item |-> item, ElementIndex |-> elementIndex,
   EntryId |-> DataEntryId(resultData.DataItems[item].Quantity.Id,
                           resultData.DataItems[item].ItemTypeGroup,
                           resultData.DataItems[item].NumberWithinGroup,
                           elementIndex)]

RECURSIVE EntriesFrom(_, _)
EntriesFrom(resultData, item) ==
  IF item > Len(resultData.DataItems) THEN <<>>
  ELSE [e \in 1..resultData.DataItems[item].NumberOfElements |->
          DataEntry(resultData, item, e - 1)]
       \o EntriesFrom(resultData, item + 1)

\* ResultDataExtensions.GetAllDataEntries
GetAllDataEntries(resultData) == EntriesFrom(resultData, 1)

\* Enumerable.ToDictionary(entry => entry.EntryId): a duplicate key throws.
HasDuplicateIds(entries) ==
  \E i, j \in 1..Len(entries) : i < j /\ entries[i].EntryId = entries[j].EntryId

CreateMapIdToDataEntry(entries) ==
  [id \in {entries[i].EntryId : i \in 1..Len(entries)} |->
     entries[CHOOSE i \in 1..Len(entries) : entries[i].EntryId = id]]

CreateMapIdToResultEventsKeepingLists(entries) ==
  [id \in {entries[i].EntryId : i \in 1..Len(entries)} |->
     IF id \in DOMAIN mapIdToResultEvents THEN mapIdToResultEvents[id] ELSE <<>>]

CreateMapIdToResultEvents(entries) ==
  [id \in {entries[i].EntryId : i \in 1..Len(entries)} |-> <<>>]

\* ------------------------------------------------------------- LTS events
\* LTSResultEvent {Value, Time}; LTSResultEventPeriodic adds {Count,
\* Duration, TimePeriod}.  Fields a constructor leaves unset hold 0.
LTSResultEvent(value, time) ==
  [Value |-> value, Time |-> time, Count |-> 0, Duration |-> 0, TimePeriod |-> 0]

LTSResultEventPeriodic(value, count, duration, timePeriod) ==
  [Value |-> value, Time |-> 0, Count |-> count, Duration |-> duration,
   TimePeriod |-> timePeriod]

\* x.CompareTo(y) of double, int and DateTime.
CompareTo(x, y) == IF x < y THEN -1 ELSE IF x > y THEN 1 ELSE 0

\* LTSResultEvents.CompareValue
CompareValueFlipped(e1, e2) ==
  LET cvalue == CompareTo(e1.Value, e2.Value)
  IN IF cvalue = 0 THEN CompareTo(e1.Time, e2.Time) ELSE cvalue

CompareValue(e1, e2) ==
  LET cvalue == CompareTo(e2.Value, e1.Value)
  IN IF cvalue = 0 THEN CompareTo(e1.Time, e2.Time) ELSE cvalue

\* The comparison SortOnTimePeriod hands to Sort.
CompareTimePeriodOnValue(e1, e2) == CompareTo(e1.Value, e2.Value)

CompareTimePeriod(e1, e2) == CompareTo(e1.TimePeriod, e2.TimePeriod)

\* List<T>.Sort(comparison) is an unstable sort: its outcomes are the
\* orderings of the list's elements in which no element is followed by one
\* that compares smaller.  SortOutcomes(l, kind) is the set of them.
Compare(kind, e1, e2) ==
  IF kind = "Value" THEN CompareValue(e1, e2) ELSE CompareTimePeriod(e1, e2)

SortOutcomesKeepingOrder(l, kind) == {l}

RECURSIVE SortOutcomes(_, _)
SortOutcomes(l, kind) ==
  IF l = <<>> THEN {<<>>}
  ELSE UNION { { <<l[i]>> \o rest : rest \in SortOutcomes(RemoveAt(l, i - 1), kind) } :
               i \in { k \in 1..Len(l) :
                         \A m \in 1..Len(l) : Compare(kind, l[k], l[m]) <= 0 } }

\* LTSResultEvents.SortOnValue
SortOnValue(l) == SortOutcomes(l, "Value")

\* LTSResultEvents.SortOnTimePeriod
SortOnTimePeriod(l) == SortOutcomes(l, "TimePeriod")

\* --------------------------------------------------- derived quantities
\* LTSResultMergerExtreme.IsDerivedQuantity
IsDerivedQuantityExtreme(quantity) == Contains(quantity.Description, ", Time")

\* LTSResultMergerPeriodic.IsDerivedQuantity
IsDerivedQuantityPeriodic(quantity) ==
  IF Contains(quantity.Description, ", Count") THEN TRUE
  ELSE IF Contains(quantity.Description, ", Duration") THEN TRUE
  ELSE FALSE

IsDerivedQuantity(pol, quantity) ==
  IF pol = "Extreme" THEN IsDerivedQuantityExtreme(quantity)
  ELSE IsDerivedQuantityPeriodic(quantity)

\* The key GetDataEntryForDerivedQuantity looks up.
DerivedEntryId(extraId, dataEntry, resultData) ==
  DataEntryIdSibling(
    CreateQuantity(resultData.DataItems[dataEntry.Item].Quantity, extraId).Id,
    dataEntry.EntryId)

\* LTSResultMerger.GetDataEntryForDerivedQuantity: the dictionary indexer
\* throws KeyNotFoundException for a key the map does not hold.
GetDataEntryForDerivedQuantity(extraId, dataEntry, resultData, map) ==
  LET entryIdDerived == DerivedEntryId(extraId, dataEntry, resultData)
  IN IF entryIdDerived \in DOMAIN map
     THEN [found |-> TRUE, entry |-> map[entryIdDerived]]
     ELSE [found |-> FALSE]

\* IDataItem.GetValue(j, elementIndex)
GetValue(dataItem, j, elementIndex) == dataItem.TimeData[j + 1][elementIndex + 1]

\* ------------------------------------------------------- MergeDataEntry
\* Both return [error, events]: the exception that left the method ("none"
\* when it returned) and _mapIdToResultEvents as the method left it.
Returned(events) == [error |-> "none", events |-> events]

Thrown(exception, events) == [error |-> exception, events |-> events]

\* The for loop of LTSResultMergerExtreme.MergeDataEntry over the time steps
\* 0 .. n - 1: the events it adds, in step order.
ReadEventsExtremeSkipFirst(dataItem, dataItemTime, elementIndex, n) ==
  [j \in 1..(n - 1) |->
     LTSResultEvent(GetValue(dataItem, j, elementIndex),
                    GetValue(dataItemTime, j, elementIndex))]

ReadEventsExtreme(dataItem, dataItemTime, elementIndex, n) ==
  [j \in 1..n |->
     LTSResultEvent(GetValue(dataItem, j - 1, elementIndex),
                    GetValue(dataItemTime, j - 1, elementIndex))]

\* LTSResultMergerExtreme.MergeDataEntry.  The loop runs over the primary
\* item's time steps; a companion item with fewer steps ends it with the
\* engine's range error after the steps both items have.
MergeDataEntryExtremeNoSkip(dataEntry, map, resultData, events) ==
  LET dataItem == resultData.DataItems[dataEntry.Item]
      time == GetDataEntryForDerivedQuantity("Time", dataEntry, resultData, map)
      dataItemTime == IF time.found THEN resultData.DataItems[time.entry.Item]
                      ELSE dataItem
      n == Min(NumberOfTimeSteps(dataItem), NumberOfTimeSteps(dataItemTime))
  IN IF dataEntry.EntryId \notin DOMAIN events
     THEN Thrown("KeyNotFoundException", events)
     ELSE Returned([events EXCEPT ![dataEntry.EntryId] =
                      @ \o ReadEventsExtreme(dataItem, dataItemTime,
                                             dataEntry.ElementIndex, n)])

MergeDataEntryExtreme(dataEntry, map, resultData, events) ==
  LET dataItem == resultData.DataItems[dataEntry.Item]
      time == GetDataEntryForDerivedQuantity("Time", dataEntry, resultData, map)
  IN IF IsDerivedQuantityExtreme(dataItem.Quantity) THEN Returned(events)
     ELSE IF ~time.found THEN Thrown("KeyNotFoundException", events)
     ELSE IF dataEntry.EntryId \notin DOMAIN events
          THEN Thrown("KeyNotFoundException", events)
     ELSE LET dataItemTime == resultData.DataItems[time.entry.Item]
              elementIndex == dataEntry.ElementIndex
              n == NumberOfTimeSteps(dataItem)
              good == Min(n, NumberOfTimeSteps(dataItemTime))
              added == ReadEventsExtreme(dataItem, dataItemTime, elementIndex, good)
              merged == [events EXCEPT ![dataEntry.EntryId] = @ \o added]
          IN IF good < n THEN Thrown("ArgumentOutOfRangeException", merged)
             ELSE Returned(merged)

\* LTSResultMergerPeriodic.MergeDataEntry
MergeDataEntryPeriodicLookingUp(dataEntry, map, resultData, events) ==
  LET dataItem == resultData.DataItems[dataEntry.Item]
      count == GetDataEntryForDerivedQuantity("Count", dataEntry, resultData, map)
      duration == GetDataEntryForDerivedQuantity("Duration", dataEntry, resultData, map)
  IN IF IsDerivedQuantityPeriodic(dataItem.Quantity) THEN Returned(events)
     ELSE IF ~count.found \/ ~duration.found
          THEN Thrown("KeyNotFoundException", events)
     ELSE IF dataEntry.EntryId \notin DOMAIN events
          THEN Thrown("KeyNotFoundException", events)
     ELSE LET elementIndex == dataEntry.ElementIndex
              dataItemCount == resultData.DataItems[count.entry.Item]
              dataItemDuration == resultData.DataItems[duration.entry.Item]
              n == Min(Min(NumberOfTimeSteps(dataItem), NumberOfTimeSteps(dataItemCount)),
                       Min(NumberOfTimeSteps(dataItemDuration),
                           Len(resultData.TimesList)))
          IN Returned([events EXCEPT ![dataEntry.EntryId] =
                         @ \o [j \in 1..n |->
                                 LTSResultEventPeriodic(
                                   GetValue(dataItem, j - 1, elementIndex),
                                   IntOf(GetValue(dataItemCount, j - 1, elementIndex)),
                                   GetValue(dataItemDuration, j - 1, elementIndex),
                                   resultData.TimesList[j])]])

MergeDataEntryPeriodic(dataEntry, map, resultData, events) ==
  LET dataItem == resultData.DataItems[dataEntry.Item]
      isGlobal == dataItem.ItemTypeGroup = "GlobalItem"
      count == GetDataEntryForDerivedQuantity("Count", dataEntry, resultData, map)
      duration == GetDataEntryForDerivedQuantity("Duration", dataEntry, resultData, map)
  IN IF IsDerivedQuantityPeriodic(dataItem.Quantity) THEN Returned(events)
     ELSE IF ~isGlobal /\ ~count.found THEN Thrown("KeyNotFoundException", events)
     ELSE IF ~isGlobal /\ ~duration.found THEN Thrown("KeyNotFoundException", events)
     ELSE IF dataEntry.EntryId \notin DOMAIN events
          THEN Thrown("KeyNotFoundException", events)
     ELSE LET elementIndex == dataEntry.ElementIndex
              n == NumberOfTimeSteps(dataItem)
              nCount == IF isGlobal THEN n
                        ELSE NumberOfTimeSteps(resultData.DataItems[count.entry.Item])
              nDuration == IF isGlobal THEN n
                           ELSE NumberOfTimeSteps(resultData.DataItems[duration.entry.Item])
              good == Min(Min(n, nCount), Min(nDuration, Len(resultData.TimesList)))
              added == [j \in 1..good |->
                          LTSResultEventPeriodic(
                            GetValue(dataItem, j - 1, elementIndex),
                            IF isGlobal THEN 0
                            ELSE IntOf(GetValue(resultData.DataItems[count.entry.Item],
                                                j - 1, elementIndex)),
                            IF isGlobal THEN 0
                            ELSE GetValue(resultData.DataItems[duration.entry.Item],
                                          j - 1, elementIndex),
                            resultData.TimesList[j])]
              merged == [events EXCEPT ![dataEntry.EntryId] = @ \o added]
          IN IF good < n THEN Thrown("ArgumentOutOfRangeException", merged)
             ELSE Returned(merged)

\* MergeDataEntry of the policy.
MergeDataEntryIgnoringUnknown(pol, dataEntry, map, resultData, events) ==
  IF dataEntry.EntryId \notin DOMAIN events THEN Returned(events)
  ELSE IF pol = "Extreme" THEN MergeDataEntryExtreme(dataEntry, map, resultData, events)
  ELSE MergeDataEntryPeriodic(dataEntry, map, resultData, events)

MergeDataEntry(pol, dataEntry, map, resultData, events) ==
  IF pol = "Extreme" THEN MergeDataEntryExtreme(dataEntry, map, resultData, events)
  ELSE MergeDataEntryPeriodic(dataEntry, map, resultData, events)

\* The inner foreach of MergeDataEntries, from entry k on: the first
\* exception ends it.
RECURSIVE MergeEntriesFrom(_, _, _, _, _, _)
MergeEntriesFrom(pol, entries, k, map, resultData, events) ==
  IF k > Len(entries) THEN Returned(events)
  ELSE LET r == MergeDataEntry(pol, entries[k], map, resultData, events)
       IN IF r.error # "none" THEN r
          ELSE MergeEntriesFrom(pol, entries, k + 1, map, resultData, r.events)

\* The body of the outer foreach of MergeDataEntries for one ResultData.
MergeResultData(pol, resultData, events) ==
  LET entries == GetAllDataEntries(resultData)
  IN IF HasDuplicateIds(entries) THEN Thrown("ArgumentException", events)
     ELSE MergeEntriesFrom(pol, entries, 1, CreateMapIdToDataEntry(entries),
                           resultData, events)

\* ----------------------------------------------------------- SortResults
\* Every outcome of sorting each list of the map whose key is in ids.
RECURSIVE SortEach(_, _, _)
SortEach(ids, events, kind) ==
  IF ids = {} THEN {events}
  ELSE LET id == CHOOSE x \in ids : TRUE
       IN UNION { SortEach(ids \ {id}, [events EXCEPT ![id] = sorted], kind) :
                  sorted \in SortOutcomes(events[id], kind) }

\* SortResults of the Extreme policy: SortOnValue on every list.
SortResultsExtreme(events) == SortEach(DOMAIN events, events, "Value")

\* SortResults of the Periodic policy: SortOnTimePeriod on every list.
SortResultsPeriodic(events) == SortEach(DOMAIN events, events, "TimePeriod")

\* -------------------------------------------------------- ProcessResults
\* The three += of ProcessResults: the later event merged into the earlier.
MergeIntoKeepingCount(before, after) ==
  [before EXCEPT !.Value = @ + after.Value, !.Duration = @ + after.Duration]

MergeInto(before, after) ==
  [before EXCEPT !.Value = @ + after.Value,
                 !.Count = @ + after.Count,
                 !.Duration = @ + after.Duration]

\* The for loop of LTSResultMergerPeriodic.ProcessResults on one list, from
\* index i (0-based) down to 1.
RECURSIVE CollapseFrom(_, _)
CollapseFrom(l, i) ==
  IF i < 1 THEN l
  ELSE LET after == l[i + 1]
           before == l[i]
       IN IF after.TimePeriod = before.TimePeriod
          THEN CollapseFrom(RemoveAt([l EXCEPT ![i] = MergeInto(before, after)], i),
                            i - 1)
          ELSE CollapseFrom(l, i - 1)

\* LTSResultMergerPeriodic.ProcessResults
ProcessResultsPeriodic(events) ==
  [id \in DOMAIN events |-> CollapseFrom(events[id], Len(events[id]) - 1)]

\* LTSResultMergerExtreme.ProcessResults
ProcessResultsExtreme(events) == events

\* -------------------------------------------------------- UpdateTimesList
\* The event lists in the map's enumeration order, which for a Dictionary
\* that only ever had keys added is the order of _dataEntries.
ValuesInOrder(entries, events) == [k \in 1..Len(entries) |-> events[entries[k].EntryId]]

\* LTSResultMergerExtreme.GetTimesListForEventResults
GetTimesListForEventResultsOneMore(largestNumberOfEvents) ==
  [i \in 1..(largestNumberOfEvents + 1) |-> StartLabel + (i - 1)]

GetTimesListForEventResults(largestNumberOfEvents) ==
  [i \in 1..largestNumberOfEvents |-> StartLabel + (i - 1)]

\* Enumerable.Max() of a non-empty sequence.
MaxOfFirst(s) == s[1]

RECURSIVE MaxOf(_)
MaxOf(s) == IF Len(s) = 1 THEN s[1] ELSE Max(s[1], MaxOf(Tail(s)))

UpdateTimesListExtremeKeepingAxis(timesList, entries, events) ==
  LET numberOfEvents == [k \in 1..Len(entries) |-> Len(ValuesInOrder(entries, events)[k])]
  IN IF Len(entries) = 0 \/ MaxOf(numberOfEvents) = 0
     THEN [error |-> "none", timesList |-> timesList]
     ELSE [error |-> "none",
           timesList |-> GetTimesListForEventResults(MaxOf(numberOfEvents))]

\* LTSResultMergerExtreme.UpdateTimesList: [error, timesList]; Max() of an
\* empty sequence throws InvalidOperationException.
UpdateTimesListExtreme(timesList, entries, events) ==
  LET numberOfEvents == [k \in 1..Len(entries) |-> Len(ValuesInOrder(entries, events)[k])]
  IN IF Len(entries) = 0
     THEN [error |-> "InvalidOperationException", timesList |-> timesList]
     ELSE [error |-> "none",
           timesList |-> GetTimesListForEventResults(MaxOf(numberOfEvents))]

\* LTSResultMergerPeriodic.UpdateTimesList
UpdateTimesListPeriodicLastList(timesList, entries, events) ==
  LET lists == ValuesInOrder(entries, events)
  IN IF Len(lists) = 0 THEN [error |-> "none", timesList |-> timesList]
     ELSE [error |-> "none",
           timesList |-> [i \in 1..Len(lists[Len(lists)]) |->
                            lists[Len(lists)][i].TimePeriod]]

UpdateTimesListPeriodic(timesList, entries, events) ==
  LET lists == ValuesInOrder(entries, events)
      nonEmpty == {k \in 1..Len(lists) : Len(lists[k]) > 0}
  IN IF nonEmpty = {} THEN [error |-> "none", timesList |-> timesList]
     ELSE LET first == lists[CHOOSE k \in nonEmpty : \A m \in nonEmpty : k <= m]
          IN [error |-> "none",
              timesList |-> [i \in 1..Len(first) |-> first[i].TimePeriod]]

\* ------------------------------------------------------ DataEntry.SetValue
\* DataEntry.ExpandTimeData on a data item: one array elementDeleteValues is
\* handed to TimeData.Add expansionSize times, so that the added time steps
\* are one array when Add keeps it.
ExpandTimeDataByOne(dataItem, expansionSize) ==
  [dataItem EXCEPT !.TimeData =
     Append(@, [e \in 1..dataItem.NumberOfElements |-> FloatOf(DOUBLE_DELETE_VALUE)])]

ExpandTimeData(dataItem, expansionSize) ==
  LET n == NumberOfTimeSteps(dataItem)
      elementDeleteValues ==
        [e \in 1..dataItem.NumberOfElements |-> FloatOf(DOUBLE_DELETE_VALUE)]
  IN [dataItem EXCEPT
        !.TimeData = @ \o [i \in 1..expansionSize |-> elementDeleteValues],
        !.SameArray = IF dataItem.AddKeepsArray /\ expansionSize >= 2
                      THEN @ \cup {(n + 1)..(n + expansionSize)}
                      ELSE @]

\* The time steps (1-based) whose values are the array of time step j.
StepsOfSameArray(dataItem, j) ==
  IF \E steps \in dataItem.SameArray : j \in steps
  THEN CHOOSE steps \in dataItem.SameArray : j \in steps
  ELSE {j}

\* The write of value to the element of every time step of steps.
RECURSIVE WriteToSteps(_, _, _, _)
WriteToSteps(timeData, steps, elementIndex, value) ==
  IF steps = {} THEN timeData
  ELSE LET j == CHOOSE k \in steps : TRUE
       IN WriteToSteps([timeData EXCEPT ![j][elementIndex + 1] = value],
                       steps \ {j}, elementIndex, value)

\* DataItem.TimeData.SetValue(timeStepIndex, elementIndex, value): the write
\* to the array of the time step shows in every time step that is that array.
TimeDataSetValue(dataItem, timeStepIndex, elementIndex, value) ==
  [dataItem EXCEPT !.TimeData =
     WriteToSteps(@, StepsOfSameArray(dataItem, timeStepIndex + 1), elementIndex, value)]

\* DataEntry.SetValue on the data item the entry refers to.
SetValue(dataItem, elementIndex, timeStepIndex, value) ==
  LET numberOfTimeSteps == NumberOfTimeSteps(dataItem)
      expanded == IF numberOfTimeSteps <= timeStepIndex
                  THEN ExpandTimeData(dataItem, timeStepIndex - numberOfTimeSteps + 1)
                  ELSE dataItem
  IN TimeDataSetValue(expanded, timeStepIndex, elementIndex, FloatOf(value))

\* dataEntry.SetValue(i, ...) applied to the result data owning the entry.
SetEntryValueOfFirstElement(resultData, dataEntry, timeStepIndex, value) ==
  [resultData EXCEPT !.DataItems[dataEntry.Item] = SetValue(@, 0, timeStepIndex, value)]

SetEntryValue(resultData, dataEntry, timeStepIndex, value) ==
  [resultData EXCEPT !.DataItems[dataEntry.Item] =
     SetValue(@, dataEntry.ElementIndex, timeStepIndex, value)]

\* ------------------------------------------------------- UpdateResultData
\* The inner for loop of the Extreme UpdateResultData, from index i on.
RECURSIVE WriteExtremeFromTimesReversed(_, _, _, _, _)
WriteExtremeFromTimesReversed(resultData, dataEntry, dataEntryTime, l, i) ==
  IF i >= Len(l) THEN resultData
  ELSE WriteExtremeFromTimesReversed(
         SetEntryValue(SetEntryValue(resultData, dataEntry, i, l[i + 1].Value),
                       dataEntryTime, i, l[Len(l) - i].Time),
         dataEntry, dataEntryTime, l, i + 1)

RECURSIVE WriteExtremeFrom(_, _, _, _, _)
WriteExtremeFrom(resultData, dataEntry, dataEntryTime, l, i) ==
  IF i >= Len(l) THEN resultData
  ELSE WriteExtremeFrom(
         SetEntryValue(SetEntryValue(resultData, dataEntry, i, l[i + 1].Value),
                       dataEntryTime, i, l[i + 1].Time),
         dataEntry, dataEntryTime, l, i + 1)

\* The foreach of LTSResultMergerExtreme.UpdateResultData, from the k-th key
\* on: [error, resultData].
RECURSIVE UpdateResultDataExtremeFrom(_, _, _, _, _)
UpdateResultDataExtremeFrom(resultData, entries, map, events, k) ==
  IF k > Len(entries) THEN [error |-> "none", resultData |-> resultData]
  ELSE LET entryId == entries[k].EntryId
           ltsResultEvents == events[entryId]
           dataEntry == map[entryId]
           time == GetDataEntryForDerivedQuantity("Time", dataEntry, resultData, map)
       IN IF Len(ltsResultEvents) = 0
          THEN UpdateResultDataExtremeFrom(resultData, entries, map, events, k + 1)
          ELSE IF ~time.found
          THEN [error |-> "KeyNotFoundException", resultData |-> resultData]
          ELSE UpdateResultDataExtremeFrom(
                 WriteExtremeFrom(resultData, dataEntry, time.entry, ltsResultEvents, 0),
                 entries, map, events, k + 1)

\* The inner for loop of the Periodic UpdateResultData; a null companion
\* (Global group) is skipped by the ?. operator.
RECURSIVE WritePeriodicFrom(_, _, _, _, _, _, _)
WritePeriodicFrom(resultData, dataEntry, isGlobal, dataEntryCount, dataEntryDuration, l, i) ==
  IF i >= Len(l) THEN resultData
  ELSE LET r1 == SetEntryValue(resultData, dataEntry, i, l[i + 1].Value)
           r2 == IF isGlobal THEN r1
                 ELSE SetEntryValue(r1, dataEntryCount, i, l[i + 1].Count)
           r3 == IF isGlobal THEN r2
                 ELSE SetEntryValue(r2, dataEntryDuration, i, l[i + 1].Duration)
       IN WritePeriodicFrom(r3, dataEntry, isGlobal, dataEntryCount,
                            dataEntryDuration, l, i + 1)

\* The foreach of LTSResultMergerPeriodic.UpdateResultData.
RECURSIVE UpdateResultDataPeriodicFrom(_, _, _, _, _)
UpdateResultDataPeriodicFrom(resultData, entries, map, events, k) ==
  IF k > Len(entries) THEN [error |-> "none", resultData |-> resultData]
  ELSE LET entryId == entries[k].EntryId
           ltsResultEvents == events[entryId]
           dataEntry == map[entryId]
           isGlobal == resultData.DataItems[dataEntry.Item].ItemTypeGroup = "GlobalItem"
           count == GetDataEntryForDerivedQuantity("Count", dataEntry, resultData, map)
           duration == GetDataEntryForDerivedQuantity("Duration", dataEntry, resultData, map)
       IN IF Len(ltsResultEvents) = 0
          THEN UpdateResultDataPeriodicFrom(resultData, entries, map, events, k + 1)
          ELSE IF ~isGlobal /\ (~count.found \/ ~duration.found)
          THEN [error |-> "KeyNotFoundException", resultData |-> resultData]
          ELSE UpdateResultDataPeriodicFrom(
                 WritePeriodicFrom(resultData, dataEntry, isGlobal,
                                   IF isGlobal THEN dataEntry ELSE count.entry,
                                   IF isGlobal THEN dataEntry ELSE duration.entry,
                                   ltsResultEvents, 0),
                 entries, map, events, k + 1)

\* ------------------------------------------------------------ input files
\* The files a call can be handed.  A file has a strictly increasing
\* TimesList and data items that all hold one time step per entry of it.
\* Its layout is one of a few: the primary item Discharge of the node group
\* (two elements) with its companions, the same in another item order, the
\* same with a companion missing, the same followed by a Global-group item,
\* the same with the primary item a second time, or no item at all.  rows[j] = <<v, c>> is drawn per time step: element 0
\* of the primary item holds v and element 1 holds Mirror(v), the Time /
\* Count companion holds c and Duration holds 10 * value + c as a float; the
\* Global item holds the step number.
Values == {1, 2}

\* The other value of Values; a value outside Values is its own mirror.
Mirror(v) == IF v \in Values THEN 3 - v ELSE v

Layouts == {"full", "permuted", "nocompanion", "withglobal", "empty", "duplicate"}

Discharge == Quantity(<<"Discharge">>, <<"Discharge">>)

PolicyOfType(resultType) ==
  CASE resultType = "LTSEvents" -> "Extreme"
    [] resultType \in {"LTSAnnual", "LTSMonthly"} -> "Periodic"
    [] OTHER -> "Regular"

\* The time axes of n steps: event labels for an LTSEvents file, n
\* increasing periods out of MaxSteps for a periodic file.
TimesLists(resultType, n) ==
  IF PolicyOfType(resultType) = "Periodic"
  THEN { tl \in [1..n -> 1..MaxSteps] : \A i, j \in 1..n : i < j => tl[i] < tl[j] }
  ELSE { [i \in 1..n |-> StartLabel + (i - 1)] }

\* The pairs <<v, c>> of one time step: every pair for an LTSEvents file (so
\* that values tie with equal and with different times), the pairs with
\* c = Mirror(v) for a periodic file.
RowValues(resultType) ==
  IF PolicyOfType(resultType) = "Periodic"
  THEN { <<v, Mirror(v)>> : v \in Values }
  ELSE Values \X Values

MakeItems(resultType, layout, tl, rows, addKeepsArray) ==
  LET n == Len(tl)
      a == DataItem(Discharge, "NodeItem", 0, 2,
                    [j \in 1..n |-> <<rows[j][1], Mirror(rows[j][1])>>],
                    addKeepsArray)
      companion(extra) ==
        DataItem(CreateQuantity(Discharge, extra), "NodeItem", 0, 2,
                 [j \in 1..n |->
                    IF extra = "Duration"
                    THEN <<FloatOf(10 * rows[j][1] + rows[j][2]),
                           FloatOf(10 * Mirror(rows[j][1]) + rows[j][2])>>
                    ELSE <<rows[j][2], rows[j][2]>>],
                 addKeepsArray)
      g == DataItem(Discharge, "GlobalItem", 0, 1, [j \in 1..n |-> <<j>>],
                    addKeepsArray)
      gTime == DataItem(CreateQuantity(Discharge, "Time"), "GlobalItem", 0, 1,
                        [j \in 1..n |-> <<j>>], addKeepsArray)
      gCount == DataItem(CreateQuantity(Discharge, "Count"), "GlobalItem", 0, 1,
                         [j \in 1..n |-> <<j>>], addKeepsArray)
      gDuration == DataItem(CreateQuantity(Discharge, "Duration"), "GlobalItem", 0, 1,
                            [j \in 1..n |-> <<10 * j>>], addKeepsArray)
  IN IF PolicyOfType(resultType) = "Periodic"
     THEN CASE layout = "full" -> <<a, companion("Count"), companion("Duration")>>
            [] layout = "permuted" -> <<companion("Duration"), companion("Count"), a>>
            [] layout = "nocompanion" -> <<a, companion("Count")>>
            [] layout = "withglobal" -> <<a, companion("Count"), companion("Duration"), g>>
            [] layout = "duplicate" -> <<a, companion("Count"), companion("Duration"), a>>
            [] layout = "globalcompanions" ->
                 <<a, companion("Count"), companion("Duration"), g, gCount, gDuration>>
            [] layout = "derivedonly" -> <<companion("Count"), companion("Duration")>>
            [] OTHER -> <<>>
     ELSE CASE layout = "full" -> <<a, companion("Time")>>
            [] layout = "permuted" -> <<companion("Time"), a>>
            [] layout = "nocompanion" -> <<a>>
            [] layout = "withglobal" -> <<a, companion("Time"), g, gTime>>
            [] layout = "duplicate" -> <<a, companion("Time"), a>>
            [] layout = "globalcompanions" -> <<a, companion("Time"), g, gTime>>
            [] layout = "derivedonly" -> <<companion("Time")>>
            [] OTHER -> <<>>

ResultData(resultType, layout, tl, rows, addKeepsArray) ==
  [ResultType |-> resultType, TimesList |-> tl,
   DataItems |-> MakeItems(resultType, layout, tl, rows, addKeepsArray)]

\* <<tl, rows>> of a file with n time steps.
FileParams(resultType, n) ==
  TimesLists(resultType, n) \X [1..n -> RowValues(resultType)]

\* The lists of at most k files' <<tl, rows>> that hold at most budget time
\* steps together.
RECURSIVE ParamLists(_, _, _)
ParamLists(resultType, k, budget) ==
  IF k = 0 THEN {<<>>}
  ELSE {<<>>} \cup
       UNION { LET rests == ParamLists(resultType, k - 1, budget - n)
               IN { <<p>> \o rest : p \in FileParams(resultType, n), rest \in rests } :
               n \in 0..Min(MaxSteps, budget) }

\* The layouts of a list of k files: at most one file departs from "full",
\* or every file holds Global items with their companions.
LayoutChoices(k) ==
  { [i \in 1..k |-> "full"], [i \in 1..k |-> "globalcompanions"] } \cup
  { [i \in 1..k |-> IF i = d THEN layout ELSE "full"] :
      d \in 1..k, layout \in Layouts \ {"full"} }

\* The values of a wider range: a zero, so that a periodic file can hold
\* buckets that add nothing, and 2^24, so that a sum of two cells is a whole
\* number that is no float.
WideValues == {0, 1, 16777216}

WideRowValues(resultType) ==
  IF PolicyOfType(resultType) = "Periodic"
  THEN { <<v, Mirror(v)>> : v \in WideValues }
  ELSE RowValues(resultType)

WideFileParams(resultType, n) ==
  TimesLists(resultType, n) \X [1..n -> WideRowValues(resultType)]

\* The lists of at most k files' <<tl, rows>> of the wider range that hold at
\* most budget time steps together.
RECURSIVE WideParamLists(_, _, _)
WideParamLists(resultType, k, budget) ==
  IF k = 0 THEN {<<>>}
  ELSE {<<>>} \cup
       UNION { LET rests == WideParamLists(resultType, k - 1, budget - n)
               IN { <<p>> \o rest : p \in WideFileParams(resultType, n), rest \in rests } :
               n \in 0..Min(MaxSteps, budget) }

\* The layouts of a list of k files, a file that holds the companions only
\* among them.
WideLayoutChoices(k) ==
  LayoutChoices(k) \cup
  { [i \in 1..k |-> IF i = d THEN "derivedonly" ELSE "full"] : d \in 1..k }

\* ---------------------------------------------------------- regular files
\* File names. A name is a tuple, so that no name equals another by accident.
NullName == <<"null">>
EmptyName == <<"">>
OutPath == <<"out">>
PathOf(i) == <<"in", i>>

Paths == {PathOf(i) : i \in 1..MaxFiles} \cup {OutPath}

IsNull(name) == name = NullName

IsNullOrEmpty(name) == name \in {NullName, EmptyName}

\* A file on disk: the time steps of its one dynamic item, Time counted from
\* the start of the file's time axis.
Step(time, data) == [Time |-> time, Data |-> data]
File(steps) == [Exists |-> TRUE, Steps |-> steps]
NoFile == [Exists |-> FALSE, Steps |-> <<>>]

NullResultData == [IsNull |-> TRUE]
NoResult == [IsNull |-> TRUE, Returned |-> FALSE]

\* Enumerable.First as the constructors use it: the position in the
\* collection of the object that _resultData refers to.
Last(collection) == Len(collection)

First(collection) == 1

\* A reference to an object that exists, as a method returns it.
Reference(ref) == [IsNull |-> FALSE, Ref |-> ref]

\* Enumerable.FirstOrDefault
LastOrDefault(collection) ==
  IF Len(collection) = 0 THEN NullResultData ELSE collection[Len(collection)]

FirstOrNew(collection) ==
  IF Len(collection) = 0
  THEN [ResultType |-> "HD", TimesList |-> <<>>, DataItems |-> <<>>]
  ELSE collection[1]

FirstOrDefault(collection) ==
  IF Len(collection) = 0 THEN NullResultData ELSE collection[1]

\* IDfsTemporalAxis.TimeSpan: the time of the last time step.
TimeSpanZero(file) == 0

TimeSpan(file) ==
  IF Len(file.Steps) = 0 THEN 0 ELSE file.Steps[Len(file.Steps)].Time

\* IDfsFile.FindTimeStep(timeStepIndex): the file pointer afterwards. What the
\* engine does for an index past the last time step is not in this
\* repository: it leaves the pointer at the end of the file or throws.
FindTimeStep(file, timeStepIndex) ==
  IF timeStepIndex < Len(file.Steps)
  THEN {[thrown |-> FALSE, pos |-> timeStepIndex + 1]}
  ELSE {[thrown |-> FALSE, pos |-> Len(file.Steps) + 1],
        [thrown |-> TRUE, pos |-> 0]}

Handle(path, mode) == [Path |-> path, Mode |-> mode]

\* ResultMerger.LoadFileHeader
HeaderOf(resultType, file) ==
  [ResultType |-> resultType,
   TimesList |-> [j \in 1..Len(file.Steps) |-> file.Steps[j].Time],
   DataItems |-> <<>>]

\* Regular files of 1..MaxRegSteps equidistant time steps, the data
\* alternating between the two values.
TimeStepLengths == {1, 2}

RegularFiles ==
  { File([j \in 1..n |-> Step((j - 1) * dt, IF j % 2 = 1 THEN d ELSE Mirror(d))]) :
      n \in 1..MaxRegSteps, dt \in TimeStepLengths, d \in Values }

ResultTypes == {"LTSEvents", "LTSAnnual", "LTSMonthly", "HD"}

\* How the references of a collection relate: all to different objects and
\* files; the last to the same object as the first; the last to another
\* object loaded from the first one's file.
Aliasings == {"distinct", "sameobject", "samepath"}

RefsOf(k, aliasing) ==
  [i \in 1..k |-> IF i = k /\ aliasing = "sameobject" THEN 1 ELSE i]

PathsOf(k, aliasing) ==
  [i \in 1..k |-> IF i = k /\ aliasing # "distinct" THEN PathOf(1) ELSE PathOf(i)]

\* ------------------------------------------------------------------- Init
NoMap == <<>>

NoCall == <<>>

InitLTS ==
  /\ api = "LTS"
  /\ call = NoCall
  /\ merges = 1
  /\ files1 = <<>>
  /\ \E resultType \in {"LTSEvents", "LTSMonthly"} :
       \E params \in ParamLists(resultType, MaxFiles, MaxEvents) :
         \E layouts \in LayoutChoices(Len(params)) :
           \E addKeepsArray \in BOOLEAN :
             files = [i \in 1..Len(params) |->
                        ResultData(resultType, layouts[i], params[i][1], params[i][2],
                                   addKeepsArray)]
  /\ files0 = files
  /\ pc = "Create"
  /\ error = "none"
  /\ policy = "none"
  /\ dataEntries = <<>>
  /\ mapIdToDataEntry = NoMap
  /\ mapIdToResultEvents = NoMap
  /\ fileIndex = 0
  /\ refs = RefsOf(Len(files), "distinct")
  /\ paths = PathsOf(Len(files), "distinct")
  /\ mergedFileName = NullName
  /\ disk = [p \in Paths |-> NoFile]
  /\ disk0 = disk
  /\ handles = {}
  /\ targetEndTime = 0
  /\ sourcePos = 0
  /\ result = NoResult

\* ------------------------------------------------------- LTS merge actions
Fail(exception) == pc' = "failed" /\ error' = exception

\* LTSResultMerger.Create and the constructor it calls.
CreateLTS ==
  /\ api = "LTS" /\ pc = "Create"
  /\ LET resultData == FirstOrDefault(files)
     IN IF resultData = NullResultData
        THEN Fail("Exception") /\ UNCHANGED <<policy, dataEntries>>
        ELSE IF PolicyOfType(resultData.ResultType) = "Regular"
        THEN Fail("NotSupportedException") /\ UNCHANGED <<policy, dataEntries>>
        ELSE /\ policy' = PolicyOfType(resultData.ResultType)
             /\ dataEntries' = GetAllDataEntries(files[First(files)])
             /\ pc' = "CreateMaps"
             /\ UNCHANGED error
  /\ UNCHANGED <<regVars, api, call, merges, files1, files, files0, mapIdToDataEntry, mapIdToResultEvents,
                 fileIndex>>

\* LTSResultMerger.CreateMaps
CreateMapsClearingDestination ==
  /\ pc = "CreateMaps"
  /\ IF HasDuplicateIds(dataEntries)
     THEN Fail("ArgumentException")
          /\ UNCHANGED <<mapIdToDataEntry, mapIdToResultEvents, fileIndex>>
     ELSE /\ mapIdToDataEntry' = CreateMapIdToDataEntry(dataEntries)
          /\ mapIdToResultEvents' = CreateMapIdToResultEvents(dataEntries)
          /\ fileIndex' = 1
          /\ pc' = "MergeDataEntries"
          /\ UNCHANGED error
  /\ files' = [i \in 1..Len(files) |->
                IF i = First(files) THEN [files[i] EXCEPT !.TimesList = <<>>]
                ELSE files[i]]
  /\ UNCHANGED <<regVars, api, call, merges, files1, files0, policy, dataEntries>>

CreateMaps ==
  /\ pc = "CreateMaps"
  /\ IF HasDuplicateIds(dataEntries)
     THEN Fail("ArgumentException")
          /\ UNCHANGED <<mapIdToDataEntry, mapIdToResultEvents, fileIndex>>
     ELSE /\ mapIdToDataEntry' = CreateMapIdToDataEntry(dataEntries)
          /\ mapIdToResultEvents' = CreateMapIdToResultEvents(dataEntries)
          /\ fileIndex' = 1
          /\ pc' = "MergeDataEntries"
          /\ UNCHANGED error
  /\ UNCHANGED <<regVars, api, call, merges, files1, files, files0, policy, dataEntries>>

\* One pass of the outer foreach of LTSResultMerger.MergeDataEntries.
MergeDataEntriesFirstOnly ==
  /\ pc = "MergeDataEntries"
  /\ LET r == MergeResultData(policy, files[fileIndex], mapIdToResultEvents)
     IN /\ mapIdToResultEvents' = r.events
        /\ IF r.error # "none"
           THEN Fail(r.error) /\ UNCHANGED fileIndex
           ELSE /\ fileIndex' = fileIndex + 1
                /\ pc' = "SortResults"
                /\ UNCHANGED error
  /\ UNCHANGED <<regVars, api, call, merges, files1, files, files0, policy, dataEntries, mapIdToDataEntry>>

MergeDataEntries ==
  /\ pc = "MergeDataEntries"
  /\ LET r == MergeResultData(policy, files[fileIndex], mapIdToResultEvents)
     IN /\ mapIdToResultEvents' = r.events
        /\ IF r.error # "none"
           THEN Fail(r.error) /\ UNCHANGED fileIndex
           ELSE /\ fileIndex' = fileIndex + 1
                /\ pc' = IF fileIndex = Len(files) THEN "SortResults"
                         ELSE "MergeDataEntries"
                /\ UNCHANGED error
  /\ UNCHANGED <<regVars, api, call, merges, files1, files, files0, policy, dataEntries, mapIdToDataEntry>>

\* SortResults of the policy.
SortResults ==
  /\ pc = "SortResults"
  /\ mapIdToResultEvents' \in
       IF policy = "Extreme" THEN SortResultsExtreme(mapIdToResultEvents)
       ELSE SortResultsPeriodic(mapIdToResultEvents)
  /\ pc' = "ProcessResults"
  /\ UNCHANGED <<regVars, api, call, merges, files1, files, files0, error, policy, dataEntries, mapIdToDataEntry,
                 fileIndex>>

\* ProcessResults of the policy.
ProcessResults ==
  /\ pc = "ProcessResults"
  /\ mapIdToResultEvents' =
       IF policy = "Extreme" THEN ProcessResultsExtreme(mapIdToResultEvents)
       ELSE ProcessResultsPeriodic(mapIdToResultEvents)
  /\ pc' = "UpdateTimesList"
  /\ UNCHANGED <<regVars, api, call, merges, files1, files, files0, error, policy, dataEntries, mapIdToDataEntry,
                 fileIndex>>

\* UpdateTimesList of the policy, on _resultData.
UpdateTimesList ==
  /\ pc = "UpdateTimesList"
  /\ LET _resultData == First(files)
         r == IF policy = "Extreme"
              THEN UpdateTimesListExtreme(files[_resultData].TimesList, dataEntries,
                                          mapIdToResultEvents)
              ELSE UpdateTimesListPeriodic(files[_resultData].TimesList, dataEntries,
                                           mapIdToResultEvents)
     IN /\ files' = [files EXCEPT ![_resultData].TimesList = r.timesList]
        /\ IF r.error # "none" THEN Fail(r.error)
           ELSE pc' = "UpdateResultData" /\ UNCHANGED error
  /\ UNCHANGED <<regVars, api, call, merges, files1, files0, policy, dataEntries, mapIdToDataEntry,
                 mapIdToResultEvents, fileIndex>>

\* UpdateResultData of the policy, then return _resultData.
UpdateResultData ==
  /\ pc = "UpdateResultData"
  /\ LET _resultData == First(files)
         r == IF policy = "Extreme"
              THEN UpdateResultDataExtremeFrom(files[_resultData], dataEntries,
                                               mapIdToDataEntry, mapIdToResultEvents, 1)
              ELSE UpdateResultDataPeriodicFrom(files[_resultData], dataEntries,
                                                mapIdToDataEntry, mapIdToResultEvents, 1)
     IN /\ files' = [files EXCEPT ![_resultData] = r.resultData]
        /\ IF r.error # "none"
           THEN Fail(r.error) /\ UNCHANGED result
           ELSE /\ pc' = "done"
                /\ result' = Reference(refs[_resultData])
                /\ UNCHANGED error
  /\ UNCHANGED <<api, call, merges, files1, files0, policy, dataEntries, mapIdToDataEntry,
                 mapIdToResultEvents, fileIndex, refs, paths, mergedFileName, disk,
                 disk0, handles, targetEndTime, sourcePos>>

NextLTS ==
  \/ CreateLTS
  \/ CreateMaps
  \/ MergeDataEntries
  \/ SortResults
  \/ ProcessResults
  \/ UpdateTimesList
  \/ UpdateResultData

Spec == InitLTS /\ [][NextLTS]_vars

\* Merge() is called again on the merger whose Merge() has returned.
MergeAgain ==
  /\ api = "LTS" /\ pc = "done"
  /\ merges < MaxMerges
  /\ merges' = merges + 1
  /\ files1' = files
  /\ pc' = "CreateMaps"
  /\ UNCHANGED <<regVars, ltsVars, api, call, files, files0, error, fileIndex>>

NextAgain == NextLTS \/ MergeAgain

SpecAgain == InitLTS /\ [][NextAgain]_vars

\* A call with at most MaxWideFiles files of the wider range of values and
\* layouts.
InitWide ==
  /\ api = "LTS"
  /\ call = NoCall
  /\ merges = 1
  /\ files1 = <<>>
  /\ \E resultType \in {"LTSEvents", "LTSMonthly"} :
       \E params \in WideParamLists(resultType, MaxWideFiles, MaxEvents) :
         \E layouts \in WideLayoutChoices(Len(params)) :
           \E addKeepsArray \in BOOLEAN :
             files = [i \in 1..Len(params) |->
                        ResultData(resultType, layouts[i], params[i][1], params[i][2],
                                   addKeepsArray)]
  /\ files0 = files
  /\ pc = "Create"
  /\ error = "none"
  /\ policy = "none"
  /\ dataEntries = <<>>
  /\ mapIdToDataEntry = NoMap
  /\ mapIdToResultEvents = NoMap
  /\ fileIndex = 0
  /\ refs = RefsOf(Len(files), "distinct")
  /\ paths = PathsOf(Len(files), "distinct")
  /\ mergedFileName = NullName
  /\ disk = [p \in Paths |-> NoFile]
  /\ disk0 = disk
  /\ handles = {}
  /\ targetEndTime = 0
  /\ sourcePos = 0
  /\ result = NoResult

SpecWide == InitWide /\ [][NextLTS]_vars

SpecWideAgain == InitWide /\ [][NextAgain]_vars

\* A call with files that may hold no primary entry: every file has the
\* primary item with its companions, or the companions only, or no item.
InitNoEvents ==
  /\ api = "LTS"
  /\ call = NoCall
  /\ merges = 1
  /\ files1 = <<>>
  /\ \E resultType \in {"LTSEvents", "LTSMonthly"} :
       \E params \in ParamLists(resultType, MaxFiles, MaxEvents) :
         \E layouts \in [1..Len(params) -> {"full", "derivedonly", "empty"}] :
           \E addKeepsArray \in BOOLEAN :
             files = [i \in 1..Len(params) |->
                        ResultData(resultType, layouts[i], params[i][1], params[i][2],
                                   addKeepsArray)]
  /\ files0 = files
  /\ pc = "Create"
  /\ error = "none"
  /\ policy = "none"
  /\ dataEntries = <<>>
  /\ mapIdToDataEntry = NoMap
  /\ mapIdToResultEvents = NoMap
  /\ fileIndex = 0
  /\ refs = RefsOf(Len(files), "distinct")
  /\ paths = PathsOf(Len(files), "distinct")
  /\ mergedFileName = NullName
  /\ disk = [p \in Paths |-> NoFile]
  /\ disk0 = disk
  /\ handles = {}
  /\ targetEndTime = 0
  /\ sourcePos = 0
  /\ result = NoResult

SpecNoEvents == InitNoEvents /\ [][NextLTS]_vars

\* --------------------------------------------------- regular merge actions
\* ResultMerger.Create and the constructor it calls.
CreateGeneral ==
  /\ api = "General" /\ pc = "Create"
  /\ LET resultData == FirstOrDefault(files)
     IN IF resultData = NullResultData
        THEN Fail("Exception") /\ UNCHANGED <<policy, dataEntries>>
        ELSE IF PolicyOfType(resultData.ResultType) = "Regular"
        THEN /\ policy' = "Regular"
             /\ pc' = "Merge"
             /\ UNCHANGED <<error, dataEntries>>
        ELSE /\ policy' = PolicyOfType(resultData.ResultType)
             /\ dataEntries' = GetAllDataEntries(files[First(files)])
             /\ pc' = "CreateMaps"
             /\ UNCHANGED error
  /\ UNCHANGED <<regVars, api, call, merges, files1, files, files0, mapIdToDataEntry, mapIdToResultEvents,
                 fileIndex>>

\* ResultMerger.Merge up to the call of CopyFileIfNeeded.
MergeRegular ==
  /\ pc = "Merge"
  /\ IF IsNullOrEmpty(mergedFileName)
     THEN Fail("ArgumentException")
     ELSE pc' = "CopyFileIfNeeded" /\ UNCHANGED error
  /\ UNCHANGED <<regVars, ltsVars, api, call, merges, files1, files, files0, fileIndex>>

\* ResultMerger.CopyFileIfNeeded, then the start of the foreach of Merge.
CopyFileIfNeeded ==
  /\ pc = "CopyFileIfNeeded"
  /\ IF paths[1] = mergedFileName
     THEN pc' = "Foreach" /\ UNCHANGED <<disk, error>>
     ELSE IF ~disk[paths[1]].Exists
     THEN Fail("FileNotFoundException") /\ UNCHANGED disk
     ELSE /\ disk' = [disk EXCEPT ![mergedFileName] = disk[paths[1]]]
          /\ pc' = "Foreach"
          /\ UNCHANGED error
  /\ fileIndex' = 1
  /\ UNCHANGED <<ltsVars, api, call, merges, files1, files, files0, refs, paths, mergedFileName, disk0,
                 handles, targetEndTime, sourcePos, result>>

\* The foreach of ResultMerger.Merge at a reference to _resultData.
Continue ==
  /\ pc = "Foreach"
  /\ fileIndex <= Len(files)
  /\ refs[fileIndex] = refs[1]
  /\ fileIndex' = fileIndex + 1
  /\ UNCHANGED <<regVars, ltsVars, api, call, merges, files1, files, files0, pc, error>>

\* AppendToFile was handed the same path as target and as source. What the
\* engine does then is not in this repository: the second open throws, or
\* the source handle reads the time steps the file held when it was opened,
\* or it reads on into the steps the target handle appends, which would
\* never end: the copy loop reads at most MaxSelfAppendSteps of them here.
AppendsToSource == paths[fileIndex] = mergedFileName

\* The time steps the source file held when AppendToFile opened it: the copy
\* loop starts at position 2 and appends one step per step it reads.
StepsAtOpen ==
  IF AppendsToSource THEN Len(disk[mergedFileName].Steps) - (sourcePos - 2)
  ELSE Len(disk[paths[fileIndex]].Steps)

\* ResultMerger.AppendToFile up to the copy loop.
AppendToFileOpen ==
  /\ pc = "Foreach"
  /\ fileIndex <= Len(files)
  /\ refs[fileIndex] # refs[1]
  /\ handles' = {Handle(mergedFileName, "append"), Handle(paths[fileIndex], "read")}
  /\ targetEndTime' = TimeSpan(disk[mergedFileName])
  /\ \E found \in FindTimeStep(disk[paths[fileIndex]], 1) :
       /\ sourcePos' = found.pos
       /\ IF found.thrown THEN Fail("Exception")
          ELSE pc' = "AppendToFile" /\ UNCHANGED error
  /\ UNCHANGED <<ltsVars, api, call, merges, files1, files, files0, fileIndex, refs, paths, mergedFileName,
                 disk, disk0, result>>

\* One pass of the copy loop of ResultMerger.AppendToFile.
AppendToFileCopyReadingEndTimeAgain ==
  /\ pc = "AppendToFile"
  /\ sourcePos <= Len(disk[paths[fileIndex]].Steps)
  /\ AppendsToSource => sourcePos <= StepsAtOpen + MaxSelfAppendSteps
  /\ LET sourceData2 == disk[paths[fileIndex]].Steps[sourcePos]
     IN disk' = [disk EXCEPT ![mergedFileName].Steps =
                   Append(@, Step(TimeSpan(disk[mergedFileName]) + sourceData2.Time,
                                  sourceData2.Data))]
  /\ sourcePos' = sourcePos + 1
  /\ UNCHANGED <<ltsVars, api, call, merges, files1, files, files0, pc, error, fileIndex, refs, paths,
                 mergedFileName, disk0, handles, targetEndTime, result>>

AppendToFileCopy ==
  /\ pc = "AppendToFile"
  /\ sourcePos <= Len(disk[paths[fileIndex]].Steps)
  /\ AppendsToSource => sourcePos <= StepsAtOpen + MaxSelfAppendSteps
  /\ LET sourceData2 == disk[paths[fileIndex]].Steps[sourcePos]
     IN disk' = [disk EXCEPT ![mergedFileName].Steps =
                   Append(@, Step(targetEndTime + sourceData2.Time, sourceData2.Data))]
  /\ sourcePos' = sourcePos + 1
  /\ UNCHANGED <<ltsVars, api, call, merges, files1, files, files0, pc, error, fileIndex, refs, paths,
                 mergedFileName, disk0, handles, targetEndTime, result>>

\* A read of the source or a write to the target fails in the copy loop of
\* ResultMerger.AppendToFile: the engine's exception leaves AppendToFile and
\* Merge, no statement of either catching it.
AppendToFileThrows ==
  /\ pc = "AppendToFile"
  /\ Fail("IOException")
  /\ UNCHANGED <<regVars, ltsVars, api, call, merges, files1, files, files0, fileIndex>>

\* The end of the copy loop of ResultMerger.AppendToFile and the two Close.
AppendToFileClose ==
  /\ pc = "AppendToFile"
  /\ sourcePos > StepsAtOpen
  /\ handles' = {}
  /\ targetEndTime' = 0
  /\ sourcePos' = 0
  /\ fileIndex' = fileIndex + 1
  /\ pc' = "Foreach"
  /\ UNCHANGED <<ltsVars, api, call, merges, files1, files, files0, error, refs, paths, mergedFileName,
                 disk, disk0, result>>

\* The end of ResultMerger.Merge: LoadFileHeader of the merged file.
LoadFileHeader ==
  /\ pc = "Foreach"
  /\ fileIndex > Len(files)
  /\ result' = HeaderOf(files[1].ResultType, disk[mergedFileName])
  /\ pc' = "done"
  /\ UNCHANGED <<ltsVars, api, call, merges, files1, files, files0, error, fileIndex, refs, paths,
                 mergedFileName, disk, disk0, handles, targetEndTime, sourcePos>>

NextRegular ==
  \/ CreateGeneral
  \/ MergeRegular
  \/ CopyFileIfNeeded
  \/ Continue
  \/ AppendToFileOpen
  \/ AppendToFileCopy
  \/ AppendToFileThrows
  \/ AppendToFileClose
  \/ LoadFileHeader

\* The destination names of a call: none, the empty name, a new file, the
\* first file. A destination that is also a file the merge appends from is
\* left out: what the engine does when a file is appended to itself is not
\* in this repository.
MergedFileNames(k) ==
  {NullName, EmptyName, OutPath} \cup (IF k = 0 THEN {} ELSE {PathOf(1)})

AppendsToItself(theRefs, thePaths, name) ==
  \E i \in 1..Len(theRefs) : theRefs[i] # theRefs[1] /\ thePaths[i] = name

\* A call of ResultMerger.Merge(IList<ResultData>, string) with regular files.
InitRegular ==
  /\ api = "General"
  /\ call = NoCall
  /\ merges = 1
  /\ files1 = <<>>
  /\ \E k \in 0..MaxFiles :
       \E contents \in [1..k -> RegularFiles] :
         \E aliasing \in Aliasings :
           /\ refs = RefsOf(k, aliasing)
           /\ paths = PathsOf(k, aliasing)
           /\ disk = [p \in Paths |->
                        IF \E i \in 1..k : p = PathOf(i)
                        THEN contents[CHOOSE i \in 1..k : p = PathOf(i)]
                        ELSE NoFile]
           /\ files = [i \in 1..k |-> HeaderOf("HD", disk[paths[i]])]
           /\ mergedFileName \in MergedFileNames(k)
           /\ ~AppendsToItself(refs, paths, mergedFileName)
  /\ files0 = files
  /\ disk0 = disk
  /\ pc = "Create"
  /\ error = "none"
  /\ policy = "none"
  /\ dataEntries = <<>>
  /\ mapIdToDataEntry = NoMap
  /\ mapIdToResultEvents = NoMap
  /\ fileIndex = 0
  /\ handles = {}
  /\ targetEndTime = 0
  /\ sourcePos = 0
  /\ result = NoResult

SpecRegular == InitRegular /\ [][NextRegular]_vars

\* DfsGenericOpen of the source throws in AppendToFile because the file is
\* open for appending: the target handle stays open.
AppendToFileOpenThrows ==
  /\ pc = "Foreach"
  /\ fileIndex <= Len(files)
  /\ refs[fileIndex] # refs[1]
  /\ AppendsToSource
  /\ handles' = {Handle(mergedFileName, "append")}
  /\ Fail("IOException")
  /\ UNCHANGED <<ltsVars, api, call, merges, files1, files, files0, fileIndex, refs, paths,
                 mergedFileName, disk, disk0, targetEndTime, sourcePos, result>>

NextAnyDestination == NextRegular \/ AppendToFileOpenThrows

\* A call of ResultMerger.Merge(IList<ResultData>, string) with regular
\* files and any destination: a new file or the file of any of the inputs.
InitAnyDestination ==
  /\ api = "General"
  /\ call = NoCall
  /\ merges = 1
  /\ files1 = <<>>
  /\ \E k \in 1..MaxFiles :
       \E contents \in [1..k -> RegularFiles] :
         \E aliasing \in Aliasings :
           /\ refs = RefsOf(k, aliasing)
           /\ paths = PathsOf(k, aliasing)
           /\ disk = [p \in Paths |->
                        IF \E i \in 1..k : p = PathOf(i)
                        THEN contents[CHOOSE i \in 1..k : p = PathOf(i)]
                        ELSE NoFile]
           /\ files = [i \in 1..k |-> HeaderOf("HD", disk[paths[i]])]
           /\ mergedFileName \in {OutPath} \cup {PathOf(i) : i \in 1..k}
  /\ files0 = files
  /\ disk0 = disk
  /\ pc = "Create"
  /\ error = "none"
  /\ policy = "none"
  /\ dataEntries = <<>>
  /\ mapIdToDataEntry = NoMap
  /\ mapIdToResultEvents = NoMap
  /\ fileIndex = 0
  /\ handles = {}
  /\ targetEndTime = 0
  /\ sourcePos = 0
  /\ result = NoResult

SpecAnyDestination == InitAnyDestination /\ [][NextAnyDestination]_vars

\* One file of each result type, in memory and on disk.
ResultDataOfType(resultType, addKeepsArray) ==
  IF PolicyOfType(resultType) = "Periodic"
  THEN ResultData(resultType, "full", <<1>>, <<<<1, Mirror(1)>>>>, addKeepsArray)
  ELSE IF PolicyOfType(resultType) = "Extreme"
  THEN ResultData(resultType, "full", <<StartLabel>>, <<<<1, 1>>>>, addKeepsArray)
  ELSE ResultData(resultType, "nocompanion", <<StartLabel>>, <<<<1, 1>>>>, addKeepsArray)

FileOfType(resultType) ==
  File([j \in 1..MaxSteps |-> Step(j - 1, IF resultType = "HD" THEN 1 ELSE 2)])

\* A call of either factory with files of any result types.
InitCreate ==
  /\ api \in {"LTS", "General"}
  /\ call = NoCall
  /\ merges = 1
  /\ files1 = <<>>
  /\ \E k \in 0..MaxFiles :
       \E types \in [1..k -> ResultTypes] :
         /\ \E addKeepsArray \in BOOLEAN :
              files = [i \in 1..k |-> ResultDataOfType(types[i], addKeepsArray)]
         /\ disk = [p \in Paths |->
                      IF \E i \in 1..k : p = PathOf(i)
                      THEN FileOfType(types[CHOOSE i \in 1..k : p = PathOf(i)])
                      ELSE NoFile]
         /\ refs = RefsOf(k, "distinct")
         /\ paths = PathsOf(k, "distinct")
         /\ mergedFileName \in MergedFileNames(k)
  /\ files0 = files
  /\ disk0 = disk
  /\ pc = "Create"
  /\ error = "none"
  /\ policy = "none"
  /\ dataEntries = <<>>
  /\ mapIdToDataEntry = NoMap
  /\ mapIdToResultEvents = NoMap
  /\ fileIndex = 0
  /\ handles = {}
  /\ targetEndTime = 0
  /\ sourcePos = 0
  /\ result = NoResult

NextCreate == NextLTS \/ NextRegular

SpecCreate == InitCreate /\ [][NextCreate]_vars

\* ------------------------------------------------- methods called directly
\* The state of a merger that was not created.
NoMerger ==
  /\ merges = 1
  /\ files1 = <<>>
  /\ error = "none"
  /\ policy = "none"
  /\ dataEntries = <<>>
  /\ mapIdToDataEntry = NoMap
  /\ mapIdToResultEvents = NoMap
  /\ fileIndex = 0
  /\ refs = RefsOf(Len(files), "distinct")
  /\ paths = PathsOf(Len(files), "distinct")
  /\ mergedFileName = NullName
  /\ disk = [p \in Paths |-> NoFile]
  /\ disk0 = disk
  /\ handles = {}
  /\ targetEndTime = 0
  /\ sourcePos = 0
  /\ result = NoResult

\* The data items of ne elements and at most MaxSteps time steps.
ItemsOfElements(ne, addKeepsArray) ==
  UNION { { DataItem(Discharge, "NodeItem", 0, ne, data, addKeepsArray) :
              data \in [1..n -> [1..ne -> Values]] } : n \in 0..MaxSteps }

\* The doubles a caller hands to SetValue: the values of the cells and a
\* whole number that is no float.
DoubleValues == Values \cup {16777217}

\* Calls of DataEntry.ExpandTimeData and then one of DataEntry.SetValue on an
\* entry of a result data's only item.
InitSetValue ==
  /\ api = "SetValue"
  /\ \E addKeepsArray \in BOOLEAN :
       \E ne \in 1..2 :
         \E dataItem \in ItemsOfElements(ne, addKeepsArray) :
           \E elementIndex \in 0..(ne - 1) :
             \E timeStepIndex \in 0..MaxTimeStepIndex :
               \E value \in DoubleValues :
                 /\ files = <<[ResultType |-> "LTSEvents", TimesList |-> <<>>,
                               DataItems |-> <<dataItem>>]>>
                 /\ call = [dataEntry |-> DataEntry(files[1], 1, elementIndex),
                            timeStepIndex |-> timeStepIndex, value |-> value]
  /\ files0 = files
  /\ pc = "SetValue"
  /\ NoMerger

\* dataEntry.ExpandTimeData(expansionSize), called before SetValue is.
ExpandTimeDataCall ==
  /\ api = "SetValue" /\ pc = "SetValue"
  /\ \E expansionSize \in 1..(MaxTimeStepIndex + 1) :
       /\ NumberOfTimeSteps(files[1].DataItems[call.dataEntry.Item]) + expansionSize
            <= MaxTimeStepIndex + 1
       /\ files' = [files EXCEPT ![1].DataItems[call.dataEntry.Item] =
                      ExpandTimeData(@, expansionSize)]
  /\ UNCHANGED <<regVars, ltsVars, api, call, merges, files1, files0, pc, error, fileIndex>>

\* dataEntry.SetValue(timeStepIndex, value)
SetValueCall ==
  /\ api = "SetValue" /\ pc = "SetValue"
  /\ files1' = files
  /\ files' = [files EXCEPT
                 ![1] = SetEntryValue(@, call.dataEntry, call.timeStepIndex, call.value)]
  /\ pc' = "done"
  /\ UNCHANGED <<regVars, ltsVars, api, call, merges, files0, error, fileIndex>>

NextSetValue == ExpandTimeDataCall \/ SetValueCall

SpecSetValue == InitSetValue /\ [][NextSetValue]_vars

\* Data items without time steps: two quantities, two groups, two numbers
\* within the group, one or two elements.
ItemsOfAnyKey(addKeepsArray) ==
  { DataItem(quantity, group, number, ne, <<>>, addKeepsArray) :
      quantity \in {Discharge, CreateQuantity(Discharge, "Time")},
      group \in {"NodeItem", "GlobalItem"},
      number \in 0..1,
      ne \in 1..2 }

\* A call of GetAllDataEntries on a result data of at most MaxItems items,
\* followed by CreateMaps on the entries.
InitEntries ==
  /\ api = "GetAllDataEntries"
  /\ call = NoCall
  /\ \E n \in 0..MaxItems :
       \E addKeepsArray \in BOOLEAN :
         \E items \in [1..n -> ItemsOfAnyKey(addKeepsArray)] :
           files = <<[ResultType |-> "LTSEvents", TimesList |-> <<>>, DataItems |-> items]>>
  /\ files0 = files
  /\ pc = "GetAllDataEntries"
  /\ NoMerger

\* resultData.GetAllDataEntries()
GetAllDataEntriesCall ==
  /\ api = "GetAllDataEntries" /\ pc = "GetAllDataEntries"
  /\ dataEntries' = GetAllDataEntries(files[1])
  /\ pc' = "CreateMaps"
  /\ UNCHANGED <<regVars, api, call, merges, files1, files, files0, error, fileIndex, policy,
                 mapIdToDataEntry, mapIdToResultEvents>>

NextEntries == GetAllDataEntriesCall \/ CreateMaps

SpecEntries == InitEntries /\ [][NextEntries]_vars

\* A call of the sibling-key constructor, and of the companion lookup, on
\* entries of a result data of at most MaxSiblingItems items that differ in
\* their keys: new DataEntryId(quantityId, entryId) for two quantity ids and
\* two entries, and GetDataEntryForDerivedQuantity("Time", ...) for the first.
InitSibling ==
  /\ api = "DataEntryId"
  /\ \E n \in 1..MaxSiblingItems, addKeepsArray \in BOOLEAN :
       \E items \in [1..n -> ItemsOfAnyKey(addKeepsArray)] :
         /\ files = <<[ResultType |-> "LTSEvents", TimesList |-> <<>>, DataItems |-> items]>>
         /\ ~HasDuplicateIds(GetAllDataEntries(files[1]))
         /\ \E k1, k2 \in 1..Len(GetAllDataEntries(files[1])) :
              \E q1, q2 \in {Discharge.Id, CreateQuantity(Discharge, "Time").Id} :
                call = [quantityId |-> q1, quantityId2 |-> q2,
                        dataEntry |-> GetAllDataEntries(files[1])[k1],
                        dataEntry2 |-> GetAllDataEntries(files[1])[k2]]
  /\ files0 = files
  /\ pc = "DataEntryId"
  /\ NoMerger

\* The constructor calls and the lookup; what they return is kept in result.
DataEntryIdCall ==
  /\ api = "DataEntryId" /\ pc = "DataEntryId"
  /\ dataEntries' = GetAllDataEntries(files[1])
  /\ mapIdToDataEntry' = CreateMapIdToDataEntry(dataEntries')
  /\ result' =
       [Sibling |-> DataEntryIdSibling(call.quantityId, call.dataEntry.EntryId),
        Sibling2 |-> DataEntryIdSibling(call.quantityId2, call.dataEntry2.EntryId),
        Same |-> DataEntryIdSibling(call.dataEntry.EntryId[1], call.dataEntry.EntryId),
        Nested |-> DataEntryIdSibling(
                     call.quantityId,
                     DataEntryIdSibling(call.quantityId2, call.dataEntry.EntryId)),
        Derived |-> GetDataEntryForDerivedQuantity("Time", call.dataEntry, files[1],
                                                   mapIdToDataEntry')]
  /\ pc' = "done"
  /\ UNCHANGED <<api, call, merges, files1, files, files0, error, fileIndex, policy,
                 mapIdToResultEvents, refs, paths, mergedFileName, disk, disk0,
                 handles, targetEndTime, sourcePos>>

SpecSibling == InitSibling /\ [][DataEntryIdCall]_vars

\* ====================================================================
\* Properties.  What the input files hold is read from files0, the
\* collection as it was handed in, independently of the merger's maps.
\* ====================================================================
\* The position in file f of the data item holding entry id, 0 if none.
ItemOfId(f, id) ==
  LET hits == { i \in 1..Len(f.DataItems) :
                  /\ f.DataItems[i].Quantity.Id = id[1]
                  /\ f.DataItems[i].ItemTypeGroup = id[2]
                  /\ f.DataItems[i].NumberWithinGroup = id[3]
                  /\ id[4] < f.DataItems[i].NumberOfElements }
  IN IF hits = {} THEN 0 ELSE CHOOSE i \in hits : TRUE

\* The values file f holds for entry id, one per time step.
SeriesOf(f, id) ==
  IF ItemOfId(f, id) = 0 THEN <<>>
  ELSE [j \in 1..Len(f.DataItems[ItemOfId(f, id)].TimeData) |->
          f.DataItems[ItemOfId(f, id)].TimeData[j][id[4] + 1]]

CompanionId(id, extra) == <<id[1] \o <<extra>>, id[2], id[3], id[4]>>

\* Entry id is a primary entry of the first file under the active policy.
IsPrimaryId(id) ==
  /\ Len(files0) > 0
  /\ ItemOfId(files0[1], id) # 0
  /\ ~IsDerivedQuantity(policy, files0[1].DataItems[ItemOfId(files0[1], id)].Quantity)

RECURSIVE Flatten(_)
Flatten(ss) == IF ss = <<>> THEN <<>> ELSE Head(ss) \o Flatten(Tail(ss))

\* The (Value, Time) events the input files hold for entry id, file by file.
InputEventsExtreme(id) ==
  Flatten([k \in 1..Len(files0) |->
             [j \in 1..Len(SeriesOf(files0[k], id)) |->
                [Value |-> SeriesOf(files0[k], id)[j],
                 Time |-> SeriesOf(files0[k], CompanionId(id, "Time"))[j]]]])

\* The buckets the input files hold for entry id, file by file.
InputEventsPeriodic(id) ==
  Flatten([k \in 1..Len(files0) |->
             [j \in 1..Len(SeriesOf(files0[k], id)) |->
                [Value |-> SeriesOf(files0[k], id)[j],
                 Count |-> IF id[2] = "GlobalItem" THEN 0
                           ELSE SeriesOf(files0[k], CompanionId(id, "Count"))[j],
                 Duration |-> IF id[2] = "GlobalItem" THEN 0
                              ELSE SeriesOf(files0[k], CompanionId(id, "Duration"))[j],
                 TimePeriod |-> files0[k].TimesList[j]]]])

Occurrences(l, x) == Cardinality({i \in 1..Len(l) : l[i] = x})

IsPermutationOf(a, b) ==
  /\ Len(a) = Len(b)
  /\ \A i \in 1..Len(a) : Occurrences(a, a[i]) = Occurrences(b, a[i])

ValueTime(e) == [Value |-> e.Value, Time |-> e.Time]

Bucket(e) ==
  [Value |-> e.Value, Count |-> e.Count, Duration |-> e.Duration,
   TimePeriod |-> e.TimePeriod]

RECURSIVE SumOver(_, _)
SumOver(l, field) == IF l = <<>> THEN 0 ELSE Head(l)[field] + SumOver(Tail(l), field)

OfPeriod(l, p) == SelectSeq(l, LAMBDA e : e.TimePeriod = p)

Sorted == pc \in {"ProcessResults", "UpdateTimesList", "UpdateResultData", "done"}

Processed == pc \in {"UpdateTimesList", "UpdateResultData", "done"}

\* C1: after an Extreme merge every entry's event list is ordered by
\* non-increasing Value and, among equal Values, non-decreasing Time.
C1_ExtremeSorted ==
  (policy = "Extreme" /\ Sorted) =>
    \A id \in DOMAIN mapIdToResultEvents :
      LET l == mapIdToResultEvents[id]
      IN \A i \in 1..(Len(l) - 1) :
           /\ l[i].Value >= l[i + 1].Value
           /\ (l[i].Value = l[i + 1].Value => l[i].Time <= l[i + 1].Time)

\* A finished Extreme merge of several files in which the sort moved events
\* and left two events of equal Value in the order of their Times.
C1_Witness ==
  /\ policy = "Extreme" /\ pc = "done" /\ Len(files0) >= 2
  /\ \E id \in {x \in DOMAIN mapIdToResultEvents : IsPrimaryId(x)} :
       LET l == mapIdToResultEvents[id]
       IN /\ Len(l) >= 3
          /\ [i \in 1..Len(l) |-> ValueTime(l[i])] # InputEventsExtreme(id)
          /\ \E i \in 1..(Len(l) - 1) :
               l[i].Value = l[i + 1].Value /\ l[i].Time < l[i + 1].Time
          /\ \E i \in 1..(Len(l) - 1) : l[i].Value > l[i + 1].Value

\* C2: after a Periodic merge every period some input file reports for an
\* entry has exactly one bucket in the entry's list, holding the sums of
\* Value, Count and Duration over all input events of that period.
C2_PeriodicSums ==
  (policy = "Periodic" /\ Processed) =>
    \A id \in DOMAIN mapIdToResultEvents :
      IsPrimaryId(id) =>
        LET l == mapIdToResultEvents[id]
            input == InputEventsPeriodic(id)
        IN \A k \in 1..Len(input) :
             LET p == input[k].TimePeriod
                 buckets == OfPeriod(l, p)
             IN /\ Len(buckets) = 1
                /\ buckets[1].Value = SumOver(OfPeriod(input, p), "Value")
                /\ buckets[1].Count = SumOver(OfPeriod(input, p), "Count")
                /\ buckets[1].Duration = SumOver(OfPeriod(input, p), "Duration")

\* A finished Periodic merge in which three files report the same period
\* for an entry that also has a second period.
C2_Witness ==
  /\ policy = "Periodic" /\ pc = "done"
  /\ \E id \in DOMAIN mapIdToResultEvents :
       /\ IsPrimaryId(id)
       /\ id[2] # "GlobalItem"
       /\ \E p \in 1..MaxSteps : Len(OfPeriod(InputEventsPeriodic(id), p)) >= 3
       /\ Len(mapIdToResultEvents[id]) = 1
       /\ mapIdToResultEvents[id][1].Count >= 3

\* C3: after a Periodic merge the TimePeriods of every entry's list are
\* strictly increasing.
C3_PeriodsIncreasing ==
  (policy = "Periodic" /\ Processed) =>
    \A id \in DOMAIN mapIdToResultEvents :
      LET l == mapIdToResultEvents[id]
      IN \A i \in 1..(Len(l) - 1) : l[i].TimePeriod < l[i + 1].TimePeriod

\* A finished Periodic merge whose input held three events of one period
\* and whose input order of periods was not increasing.
C3_Witness ==
  /\ policy = "Periodic" /\ pc = "done"
  /\ \E id \in {x \in DOMAIN mapIdToResultEvents : IsPrimaryId(x)} :
       LET input == InputEventsPeriodic(id)
       IN \/ /\ Len(input) >= 3
             /\ \A i \in 1..Len(input) : input[i].TimePeriod = input[1].TimePeriod
          \/ /\ Len(mapIdToResultEvents[id]) >= 2
             /\ \E i \in 1..(Len(input) - 1) :
                  input[i].TimePeriod > input[i + 1].TimePeriod

\* C4: in an Extreme merge every primary entry's list is a permutation of
\* the concatenation, in file order, of the entry's (Value, Time) events of
\* every input file; up to the sort it is that concatenation itself.
C4_ExtremeAllEvents ==
  (policy = "Extreme" /\ (pc = "SortResults" \/ Sorted)) =>
    \A id \in DOMAIN mapIdToResultEvents :
      IsPrimaryId(id) =>
        LET l == [i \in 1..Len(mapIdToResultEvents[id]) |->
                    ValueTime(mapIdToResultEvents[id][i])]
        IN /\ IsPermutationOf(l, InputEventsExtreme(id))
           /\ pc = "SortResults" => l = InputEventsExtreme(id)

\* A finished Extreme merge of files with time steps each, whose list holds
\* one event twice.
C4_Witness ==
  /\ policy = "Extreme" /\ pc = "done" /\ Len(files0) >= 2
  /\ \A k \in 1..Len(files0) : Len(files0[k].TimesList) >= 1
  /\ \E id \in DOMAIN mapIdToResultEvents :
       LET l == mapIdToResultEvents[id]
       IN /\ Len(l) = 3
          /\ \E i \in 1..2 : l[i] = l[i + 1]

\* C5: after an Extreme merge the time axis has as many slots as the longest
\* event list, and slot i (0-based) is the reference label plus i seconds.
C5_ExtremeTimesList ==
  (policy = "Extreme" /\ pc \in {"UpdateResultData", "done"}) =>
    /\ \A id \in DOMAIN mapIdToResultEvents :
         Len(mapIdToResultEvents[id]) <= Len(files[1].TimesList)
    /\ \E id \in DOMAIN mapIdToResultEvents :
         Len(mapIdToResultEvents[id]) = Len(files[1].TimesList)
    /\ \A i \in 1..Len(files[1].TimesList) :
         files[1].TimesList[i] = StartLabel + (i - 1)

\* A finished Extreme merge whose axis grew and is longer than the list of
\* some primary entry that has events.
C5_Witness ==
  /\ policy = "Extreme" /\ pc = "done"
  /\ Len(files[1].TimesList) > Len(files0[1].TimesList)
  /\ \E id \in DOMAIN mapIdToResultEvents :
       /\ Len(mapIdToResultEvents[id]) > 0
       /\ Len(mapIdToResultEvents[id]) < Len(files[1].TimesList)

\* File f holds a primary entry (under policy pol) one of whose companions
\* it does not hold.
LacksCompanion(pol, f) ==
  \E i \in 1..Len(f.DataItems) :
    /\ ~IsDerivedQuantity(pol, f.DataItems[i].Quantity)
    /\ \E extra \in (IF pol = "Extreme" THEN {"Time"}
                     ELSE IF f.DataItems[i].ItemTypeGroup = "GlobalItem" THEN {}
                     ELSE {"Count", "Duration"}) :
         ItemOfId(f, <<f.DataItems[i].Quantity.Id \o <<extra>>,
                       f.DataItems[i].ItemTypeGroup,
                       f.DataItems[i].NumberWithinGroup, 0>>) = 0

\* C6: a primary entry whose companion quantity is absent in a source file
\* is skipped for that file and the merge does not fail: reading a file that
\* lacks a companion never ends the merge with the lookup error.
C6_DerivedSkip ==
  ~( /\ pc = "failed"
     /\ error = "KeyNotFoundException"
     /\ fileIndex \in 1..Len(files0)
     /\ LacksCompanion(policy, files0[fileIndex]) )

ExtremeOrdered(l) ==
  \A i \in 1..(Len(l) - 1) :
    \/ l[i].Value > l[i + 1].Value
    \/ l[i].Value = l[i + 1].Value /\ l[i].Time <= l[i + 1].Time

PeriodsIncreasing(l) ==
  \A i \in 1..(Len(l) - 1) : l[i].TimePeriod < l[i + 1].TimePeriod

\* Entry id's merged list and the input files' events for it, as the fields
\* the active policy reads.
MergedEvents(id) ==
  [i \in 1..Len(mapIdToResultEvents[id]) |->
     IF policy = "Extreme" THEN ValueTime(mapIdToResultEvents[id][i])
     ELSE Bucket(mapIdToResultEvents[id][i])]

InputEvents(id) ==
  IF policy = "Extreme" THEN InputEventsExtreme(id) ELSE InputEventsPeriodic(id)

PolicyOrdered(l) ==
  IF policy = "Extreme" THEN ExtremeOrdered(l) ELSE PeriodsIncreasing(l)

\* C7 as stated: a merge of a single file yields for every entry the
\* file's own data for the entry in the file's own order, and a time axis
\* as long as the entry's time-step count.
C7_SingleFileSameOrder ==
  (pc = "done" /\ Len(files0) = 1) =>
    \A id \in DOMAIN mapIdToResultEvents :
      /\ [i \in 1..Len(mapIdToResultEvents[id]) |-> mapIdToResultEvents[id][i].Value]
           = SeriesOf(files0[1], id)
      /\ IsPrimaryId(id) => MergedEvents(id) = InputEvents(id)
      /\ Len(files[1].TimesList) = Len(SeriesOf(files0[1], id))

\* The first file holds a primary entry of the active policy.
HoldsPrimaryEntry ==
  \E id \in DOMAIN mapIdToResultEvents : IsPrimaryId(id)

\* C7 (amended): a merge of a single file yields for every primary entry the
\* file's own events ordered by the policy's comparator, which is the file's
\* own order whenever the file holds them in that order (as every periodic
\* file with an increasing time axis does), and for every derived entry an
\* empty list; the time axis is as long as each entry's time-step count,
\* but for an Extreme merge of a file that holds derived entries only, whose
\* time axis becomes empty while the entries keep their time steps.
C7_SingleFileSorted ==
  (pc = "done" /\ Len(files0) = 1) =>
    /\ \A id \in DOMAIN mapIdToResultEvents :
         /\ IsPrimaryId(id) =>
              /\ IsPermutationOf(MergedEvents(id), InputEvents(id))
              /\ PolicyOrdered(MergedEvents(id))
              /\ PolicyOrdered(InputEvents(id)) => MergedEvents(id) = InputEvents(id)
              /\ policy = "Periodic" => MergedEvents(id) = InputEvents(id)
         /\ ~IsPrimaryId(id) => mapIdToResultEvents[id] = <<>>
         /\ (policy = "Periodic" \/ HoldsPrimaryEntry) =>
              Len(files[1].TimesList) = Len(SeriesOf(files0[1], id))
    /\ (policy = "Extreme" /\ ~HoldsPrimaryEntry) =>
         /\ files[1].TimesList = <<>>
         /\ files[1].DataItems = files0[1].DataItems

\* A finished Extreme merge of one file that holds derived entries only: the
\* time axis is empty and the entries hold MaxSteps time steps.
SingleFileOfDerivedEntries ==
  /\ pc = "done" /\ Len(files0) = 1 /\ policy = "Extreme"
  /\ DOMAIN mapIdToResultEvents # {}
  /\ ~HoldsPrimaryEntry
  /\ files[1].TimesList = <<>>
  /\ \A id \in DOMAIN mapIdToResultEvents : Len(SeriesOf(files[1], id)) = MaxSteps

\* A finished merge of one LTSEvents file whose events were not in the
\* comparator's order, so that the sort moved them.
C7_Witness ==
  /\ pc = "done" /\ Len(files0) = 1 /\ policy = "Extreme"
  /\ \E id \in {x \in DOMAIN mapIdToResultEvents : IsPrimaryId(x)} :
       /\ Len(InputEvents(id)) = MaxSteps
       /\ ~ExtremeOrdered(InputEvents(id))
       /\ Len(files[1].TimesList) = MaxSteps

\* C8: merging regular file A (N time steps) with regular file B (M time
\* steps, its first step's data equal to A's last) gives a destination of
\* N + M - 1 time steps: the first N are A's, times and data unchanged, and
\* the others are B's steps 1..M-1 (counted from 0), each at B's time plus
\* the time A spans.
C8_AppendRoundTrip ==
  (pc = "done" /\ policy = "Regular" /\ Len(files0) = 2 /\ refs[2] # refs[1]) =>
    LET A == disk0[paths[1]].Steps
        B == disk0[paths[2]].Steps
        merged == disk[mergedFileName].Steps
        N == Len(A)
        M == Len(B)
    IN B[1].Data = A[N].Data =>
         /\ Len(merged) = N + M - 1
         /\ Len(result.TimesList) = N + M - 1
         /\ \A i \in 1..N : merged[i] = A[i]
         /\ \A j \in 2..M :
              /\ merged[N + j - 1].Data = B[j].Data
              /\ merged[N + j - 1].Time = B[j].Time + (A[N].Time - A[1].Time)

\* Two files of MaxRegSteps steps with different step lengths, the second
\* starting with the data the first ends with, were merged into a new file.
C8_Witness ==
  /\ pc = "done" /\ policy = "Regular" /\ Len(files0) = 2 /\ refs[2] # refs[1]
  /\ mergedFileName = OutPath
  /\ Len(disk0[paths[1]].Steps) = MaxRegSteps
  /\ Len(disk0[paths[2]].Steps) = MaxRegSteps
  /\ disk0[paths[2]].Steps[1].Data = disk0[paths[1]].Steps[MaxRegSteps].Data
  /\ disk0[paths[2]].Steps[2].Time # disk0[paths[1]].Steps[2].Time
  /\ Len(disk[OutPath].Steps) = 2 * MaxRegSteps - 1

\* C9: the factory selects the merger from the result type of the first
\* file only: LTSEvents gives Extreme, LTSAnnual and LTSMonthly give
\* Periodic; for another type the LTS factory fails with
\* NotSupportedException, no data entry read and nothing written, and the
\* general factory creates the regular merger.
C9_FactorySelection ==
  (pc # "Create" /\ Len(files0) > 0) =>
    LET resultType == files0[1].ResultType
    IN /\ resultType = "LTSEvents" => policy = "Extreme"
       /\ resultType \in {"LTSAnnual", "LTSMonthly"} => policy = "Periodic"
       /\ (resultType \notin {"LTSEvents", "LTSAnnual", "LTSMonthly"} /\ api = "LTS") =>
            /\ pc = "failed" /\ error = "NotSupportedException"
            /\ policy = "none"
            /\ dataEntries = <<>>
            /\ mapIdToDataEntry = NoMap /\ mapIdToResultEvents = NoMap
            /\ files = files0 /\ disk = disk0 /\ handles = {}
       /\ (resultType \notin {"LTSEvents", "LTSAnnual", "LTSMonthly"} /\ api = "General") =>
            policy = "Regular"

\* The general factory created the regular merger for a list whose first
\* file is a regular one and whose other files are LTS files, and the
\* merge went through.
C9_Witness ==
  /\ Len(files0) = MaxFiles
  /\ api = "General"
  /\ policy = "Regular"
  /\ \A i \in 2..MaxFiles : files0[i].ResultType = "LTSEvents"
  /\ pc = "done"

\* C10: a merge of no files fails at once with the empty-list error: no
\* merger created, no file copied, appended to or loaded, no handle opened.
C10_EmptyInput ==
  (pc # "Create" /\ Len(files0) = 0) =>
    /\ pc = "failed" /\ error = "Exception"
    /\ policy = "none"
    /\ dataEntries = <<>>
    /\ mapIdToDataEntry = NoMap /\ mapIdToResultEvents = NoMap
    /\ disk = disk0 /\ handles = {} /\ result = NoResult
    /\ fileIndex = 0

\* The general factory was called with an empty list and a destination name.
C10_Witness ==
  /\ Len(files0) = 0 /\ pc = "failed" /\ api = "General"
  /\ mergedFileName = OutPath

\* The time steps (1-based) of the data item SetValue was called on that are
\* the array of the time step it wrote to.
WrittenSteps ==
  StepsOfSameArray(files[1].DataItems[1], call.timeStepIndex + 1)

\* C11: DataEntry.SetValue(t, v) on an item of n time steps leaves n steps
\* if t < n and otherwise grows the item to exactly t + 1 steps.  Afterwards
\* the cell (t, ElementIndex) holds v as a float: v itself up to 2^24 in
\* magnitude, a float within |v| / 2^24 of it beyond.  The time steps that are
\* one array with time step t hold that value at ElementIndex too: these are
\* steps that one earlier expansion by two or more added together with t, or
\* the other steps this call adds, and only when the engine's Add keeps the
\* array it is handed.  Every other cell that existed before is unchanged and
\* every other cell of an added step holds the delete value.
C11_SetValue ==
  (api = "SetValue" /\ pc = "done") =>
    LET before == files1[1].DataItems[1].TimeData
        after == files[1].DataItems[1].TimeData
        n == Len(before)
        t == call.timeStepIndex
        e == call.dataEntry.ElementIndex
        v == call.value
        ne == files0[1].DataItems[1].NumberOfElements
        added == (n + 1)..Len(after)
    IN /\ Len(after) = IF t >= n THEN t + 1 ELSE n
       /\ \A j \in 1..Len(after) : DOMAIN after[j] = 1..ne
       /\ (v <= 16777216 /\ v >= -16777216) => after[t + 1][e + 1] = v
       /\ (after[t + 1][e + 1] - v) * 16777216 <= Max(v, 0 - v)
       /\ (v - after[t + 1][e + 1]) * 16777216 <= Max(v, 0 - v)
       /\ \A j \in 1..Len(after) : \A el \in 1..ne :
            after[j][el] =
              IF j \in WrittenSteps /\ el = e + 1 THEN after[t + 1][e + 1]
              ELSE IF j <= n THEN before[j][el] ELSE DOUBLE_DELETE_VALUE
       /\ WrittenSteps # {t + 1} =>
            /\ files0[1].DataItems[1].AddKeepsArray
            /\ \/ WrittenSteps \in files1[1].DataItems[1].SameArray
               \/ WrittenSteps = added
       /\ files[1].DataItems[1].NumberOfElements = ne
       /\ files[1].TimesList = files0[1].TimesList

\* SetValue was called with a double that is no float on a time step that
\* an earlier ExpandTimeData had added together with another one, the
\* engine keeping the array.
C11_Witness ==
  /\ api = "SetValue" /\ pc = "done"
  /\ files0[1].DataItems[1].NumberOfElements = 2
  /\ files0[1].DataItems[1].AddKeepsArray
  /\ call.timeStepIndex < Len(files1[1].DataItems[1].TimeData)
  /\ WrittenSteps \in files1[1].DataItems[1].SameArray
  /\ call.value = 16777217
  /\ files[1].DataItems[1].TimeData[call.timeStepIndex + 1]
                                   [call.dataEntry.ElementIndex + 1] = 16777216

\* C11 as it was stated: the cell holds v, the added steps hold the delete
\* value in every other element, and every other cell that existed before
\* the call is unchanged.
C11_SetValueAsStated ==
  (api = "SetValue" /\ pc = "done") =>
    LET before == files1[1].DataItems[1].TimeData
        after == files[1].DataItems[1].TimeData
        n == Len(before)
        t == call.timeStepIndex
        e == call.dataEntry.ElementIndex
        ne == files0[1].DataItems[1].NumberOfElements
    IN /\ Len(after) = IF t >= n THEN t + 1 ELSE n
       /\ after[t + 1][e + 1] = call.value
       /\ \A j \in 1..n : \A el \in 1..ne :
            <<j, el>> # <<t + 1, e + 1>> => after[j][el] = before[j][el]
       /\ \A j \in (n + 1)..Len(after) : \A el \in 1..ne :
            el # e + 1 => after[j][el] = DOUBLE_DELETE_VALUE

\* The cell does not hold the double it was handed.
SetValueRounded ==
  /\ api = "SetValue" /\ pc = "done"
  /\ files[1].DataItems[1].TimeData[call.timeStepIndex + 1]
                                   [call.dataEntry.ElementIndex + 1] # call.value

\* A cell that existed before the call, other than the one written to,
\* changed.
SetValueWroteOtherStep ==
  /\ api = "SetValue" /\ pc = "done"
  /\ call.value \in Values
  /\ \E j \in 1..Len(files1[1].DataItems[1].TimeData) :
       /\ j # call.timeStepIndex + 1
       /\ files[1].DataItems[1].TimeData[j] # files1[1].DataItems[1].TimeData[j]

\* The engine copying the array, the added steps two or more: only the cell
\* that was written to departs from the delete value.
SetValueOfCopiedSteps ==
  /\ api = "SetValue" /\ pc = "done"
  /\ ~files0[1].DataItems[1].AddKeepsArray
  /\ call.timeStepIndex > Len(files1[1].DataItems[1].TimeData)
  /\ WrittenSteps = {call.timeStepIndex + 1}

\* The engine keeping the array, the added steps two or more: every added
\* step holds the value at ElementIndex.
SetValueOfKeptSteps ==
  /\ api = "SetValue" /\ pc = "done"
  /\ files0[1].DataItems[1].AddKeepsArray
  /\ call.timeStepIndex > Len(files1[1].DataItems[1].TimeData)
  /\ \A j \in (Len(files1[1].DataItems[1].TimeData) + 1)..(call.timeStepIndex + 1) :
       files[1].DataItems[1].TimeData[j][call.dataEntry.ElementIndex + 1] = call.value

\* C12: an LTS merge writes only to the first input file: the data items
\* and the time axis of every other file stay as they were handed in, and
\* the merge returns the reference to the first file.
C12_OnlyFirstWritten ==
  /\ Len(files) = Len(files0)
  /\ \A i \in 2..Len(files) : files[i] = files0[i]
  /\ pc = "done" => result = Reference(refs[1])
  /\ pc # "done" => result = NoResult

\* A merge of MaxFiles files has returned, the first file changed.
C12_Witness ==
  /\ pc = "done"
  /\ Len(files0) = MaxFiles
  /\ \A i \in 1..MaxFiles : Len(files0[i].TimesList) > 0
  /\ files[1].TimesList # files0[1].TimesList
  /\ files[1].DataItems # files0[1].DataItems
  /\ result = Reference(refs[1])

AppendHandles == {h \in handles : h.Mode = "append"}

\* C13: every handle AppendToFile acquires is released on every exit path,
\* a failing read or write included, so none is open once the merge has
\* returned or aborted; and never is more than one handle open for
\* appending.
C13_HandlesReleased ==
  /\ pc \in {"done", "failed"} => handles = {}
  /\ Cardinality(AppendHandles) <= 1

\* The second half of C13 alone.
OneAppendHandle == Cardinality(AppendHandles) <= 1

\* C14: a regular merge called with a null or empty destination name fails
\* with ArgumentException before any file is copied, opened or modified:
\* the destination and every input file are as they were.
C14_NoDestinationName ==
  (policy = "Regular" /\ mergedFileName \in {NullName, EmptyName} /\ pc # "Merge") =>
    /\ pc = "failed" /\ error = "ArgumentException"
    /\ disk = disk0
    /\ files = files0
    /\ handles = {}
    /\ fileIndex = 0
    /\ result = NoResult

\* The regular merger of MaxFiles files was given the empty name and failed.
C14_Witness ==
  /\ policy = "Regular" /\ mergedFileName = EmptyName
  /\ Len(files0) = MaxFiles
  /\ pc = "failed" /\ error = "ArgumentException"

\* The stages of LTSResultMerger.Merge, each with the one that follows it.
StageSteps ==
  {<<"Create", "CreateMaps">>, <<"CreateMaps", "MergeDataEntries">>,
   <<"MergeDataEntries", "SortResults">>, <<"SortResults", "ProcessResults">>,
   <<"ProcessResults", "UpdateTimesList">>, <<"UpdateTimesList", "UpdateResultData">>,
   <<"UpdateResultData", "done">>}

StageStep ==
  /\ pc' # pc => (<<pc, pc'>> \in StageSteps \/ pc' = "failed")
  /\ pc \in {"done", "failed"} => pc' = pc
  /\ (pc = "MergeDataEntries" /\ pc' # "failed") =>
       /\ fileIndex' = fileIndex + 1
       /\ pc' = "SortResults" <=> fileIndex = Len(files)
  /\ (pc # "MergeDataEntries" /\ pc # "CreateMaps") => fileIndex' = fileIndex
  /\ pc \notin {"CreateMaps", "MergeDataEntries", "SortResults", "ProcessResults"} =>
       mapIdToResultEvents' = mapIdToResultEvents

NothingWrittenYet ==
  pc \in {"Create", "CreateMaps", "MergeDataEntries", "SortResults", "ProcessResults",
          "UpdateTimesList"} => files = files0

\* C15: an LTS merge runs CreateMaps, MergeDataEntries (one file after the
\* other in the caller's order, all of them), SortResults, ProcessResults,
\* UpdateTimesList and UpdateResultData once each and in this order, and
\* writes nothing to the first file before every file was read and every
\* list sorted and processed; the lists do not change while they are
\* written back.
C15_StagesInOrder == [](NothingWrittenYet) /\ [][StageStep]_vars

\* The last stage is reached after MaxFiles files were read: the time axis
\* is written, the data items not yet.
C15_Witness ==
  /\ pc = "UpdateResultData"
  /\ Len(files0) = MaxFiles
  /\ fileIndex = MaxFiles + 1
  /\ files[1].TimesList # files0[1].TimesList
  /\ files[1].DataItems = files0[1].DataItems

\* C16 as stated: after an LTS merge the first file holds, for every entry
\* with a non-empty list and every position i of the list, list[i].Value in
\* the entry's cell of time step i and the other fields of the same event in
\* the companions' cells of that step and element (Time for Extreme; Count
\* and Duration for a Periodic entry outside the Global group); an Extreme
\* value and its time are a pair that some input step held.
C16_WrittenByPosition ==
  pc = "done" =>
    \A id \in DOMAIN mapIdToResultEvents :
      LET l == mapIdToResultEvents[id]
      IN \A i \in 1..Len(l) :
           /\ SeriesOf(files[1], id)[i] = l[i].Value
           /\ policy = "Extreme" =>
                /\ SeriesOf(files[1], CompanionId(id, "Time"))[i] = l[i].Time
                /\ \E k \in 1..Len(InputEventsExtreme(id)) :
                     InputEventsExtreme(id)[k] =
                       [Value |-> SeriesOf(files[1], id)[i],
                        Time |-> SeriesOf(files[1], CompanionId(id, "Time"))[i]]
           /\ (policy = "Periodic" /\ id[2] # "GlobalItem") =>
                /\ SeriesOf(files[1], CompanionId(id, "Count"))[i] = l[i].Count
                /\ SeriesOf(files[1], CompanionId(id, "Duration"))[i] = l[i].Duration

\* C16 (amended): after an LTS merge the first file holds, for every entry
\* with a non-empty list and every position i of the list, list[i].Value
\* converted to single precision in the entry's cell of time step i and the
\* other fields of the same event, converted alike, in the companions' cells
\* of that step and element (Time for Extreme; Count and Duration for a
\* Periodic entry outside the Global group). An Extreme event's fields are
\* floats that an input step held together, and the cells hold them
\* unchanged; a Periodic bucket's fields are sums, and the cells hold the
\* three sums of one period, each rounded to the nearest float.
C16_WrittenByPositionAsFloat ==
  pc = "done" =>
    \A id \in DOMAIN mapIdToResultEvents :
      LET l == mapIdToResultEvents[id]
      IN \A i \in 1..Len(l) :
           /\ SeriesOf(files[1], id)[i] = FloatOf(l[i].Value)
           /\ policy = "Extreme" =>
                /\ SeriesOf(files[1], id)[i] = l[i].Value
                /\ SeriesOf(files[1], CompanionId(id, "Time"))[i] = l[i].Time
                /\ \E k \in 1..Len(InputEventsExtreme(id)) :
                     InputEventsExtreme(id)[k] =
                       [Value |-> SeriesOf(files[1], id)[i],
                        Time |-> SeriesOf(files[1], CompanionId(id, "Time"))[i]]
           /\ (policy = "Periodic" /\ id[2] # "GlobalItem") =>
                /\ SeriesOf(files[1], CompanionId(id, "Count"))[i] = FloatOf(l[i].Count)
                /\ SeriesOf(files[1], CompanionId(id, "Duration"))[i] =
                     FloatOf(l[i].Duration)
                /\ l[i].Value = SumOver(OfPeriod(InputEventsPeriodic(id), l[i].TimePeriod),
                                        "Value")
                /\ l[i].Count = SumOver(OfPeriod(InputEventsPeriodic(id), l[i].TimePeriod),
                                        "Count")
                /\ l[i].Duration =
                     SumOver(OfPeriod(InputEventsPeriodic(id), l[i].TimePeriod), "Duration")

\* A Periodic merge of two files wrote back a bucket whose sums of values and
\* of durations are no floats: the cells hold the rounded sums.
C16_Witness ==
  /\ pc = "done" /\ policy = "Periodic" /\ Len(files0) = 2
  /\ \E id \in DOMAIN mapIdToResultEvents :
       LET l == mapIdToResultEvents[id]
       IN /\ IsPrimaryId(id) /\ id[2] # "GlobalItem"
          /\ \E i \in 1..Len(l) :
               /\ l[i].Value # FloatOf(l[i].Value)
               /\ l[i].Duration # FloatOf(l[i].Duration)
               /\ SeriesOf(files[1], id)[i] = FloatOf(l[i].Value)
               /\ SeriesOf(files[1], CompanionId(id, "Count"))[i] = FloatOf(l[i].Count)
               /\ SeriesOf(files[1], CompanionId(id, "Duration"))[i] =
                    FloatOf(l[i].Duration)

\* An Extreme merge wrote back a list of MaxEvents events whose first and
\* last differ in value and in time.
ExtremeWrittenByPosition ==
  /\ pc = "done" /\ policy = "Extreme"
  /\ \E id \in DOMAIN mapIdToResultEvents :
       LET l == mapIdToResultEvents[id]
       IN /\ Len(l) = MaxEvents
          /\ l[1].Value # l[MaxEvents].Value
          /\ l[1].Time # l[MaxEvents].Time
          /\ Len(SeriesOf(files[1], CompanionId(id, "Time"))) = MaxEvents

\* Entry id's quantity is derived under the active policy, by the text of
\* its description in the first file.
DerivedByDescription(id) ==
  /\ ItemOfId(files0[1], id) # 0
  /\ LET description == files0[1].DataItems[ItemOfId(files0[1], id)].Quantity.Description
     IN \/ policy = "Extreme" /\ Contains(description, ", Time")
        \/ policy = "Periodic" /\ Contains(description, ", Count")
        \/ policy = "Periodic" /\ Contains(description, ", Duration")

CompanionsOf(id) ==
  IF policy = "Extreme" THEN {"Time"}
  ELSE IF id[2] = "GlobalItem" THEN {}
  ELSE {"Count", "Duration"}

\* How often UpdateResultData writes the cell of entry id at position i of
\* the time axis: as the cell of the entry itself and as a companion's.
WritesTo(id, i) ==
  Cardinality({x \in DOMAIN mapIdToResultEvents :
                 x = id /\ i <= Len(mapIdToResultEvents[x])})
  + Cardinality({xe \in (DOMAIN mapIdToResultEvents) \X {"Time", "Count", "Duration"} :
                   /\ xe[2] \in CompanionsOf(xe[1])
                   /\ CompanionId(xe[1], xe[2]) = id
                   /\ i <= Len(mapIdToResultEvents[xe[1]])})

\* C17: the event list of an entry whose quantity is derived under the
\* active policy stays empty through the whole merge, and each of its cells
\* is written at most once, as the companion of its primary entry: a cell
\* that differs from the input is one the primary's list reaches.
C17_DerivedNeverMerged ==
  \A id \in DOMAIN mapIdToResultEvents :
    DerivedByDescription(id) =>
      /\ mapIdToResultEvents[id] = <<>>
      /\ \A i \in 1..(MaxEvents + 1) : WritesTo(id, i) <= 1
      /\ \A i \in 1..Len(SeriesOf(files[1], id)) :
           (i > Len(SeriesOf(files0[1], id)) \/
            SeriesOf(files[1], id)[i] # SeriesOf(files0[1], id)[i]) =>
             \E extra \in {"Time", "Count", "Duration"} :
               \E x \in DOMAIN mapIdToResultEvents :
                 /\ extra \in CompanionsOf(x)
                 /\ CompanionId(x, extra) = id
                 /\ ~DerivedByDescription(x)
                 /\ i <= Len(mapIdToResultEvents[x])

\* A merge of MaxFiles files is done; a derived entry's cells were written
\* through its primary entry and its own list is empty.
C17_Witness ==
  /\ pc = "done" /\ Len(files0) = MaxFiles
  /\ \E id \in DOMAIN mapIdToResultEvents :
       /\ DerivedByDescription(id)
       /\ mapIdToResultEvents[id] = <<>>
       /\ Len(SeriesOf(files[1], id)) = MaxEvents
       /\ SeriesOf(files[1], id) # SeriesOf(files0[1], id)
       /\ WritesTo(id, MaxEvents) = 1

\* C18: after the Periodic UpdateTimesList the first file's time axis is,
\* if some entry has a non-empty list, the TimePeriods in list order of one
\* non-empty list, hence strictly increasing and as long as that list; if
\* no entry has an event it is the axis the file had before the merge.
C18_PeriodicTimesList ==
  (policy = "Periodic" /\ pc \in {"UpdateResultData", "done"}) =>
    IF \E id \in DOMAIN mapIdToResultEvents : mapIdToResultEvents[id] # <<>>
    THEN /\ \E id \in DOMAIN mapIdToResultEvents :
              /\ mapIdToResultEvents[id] # <<>>
              /\ files[1].TimesList =
                   [i \in 1..Len(mapIdToResultEvents[id]) |->
                      mapIdToResultEvents[id][i].TimePeriod]
         /\ \A i \in 1..(Len(files[1].TimesList) - 1) :
              files[1].TimesList[i] < files[1].TimesList[i + 1]
    ELSE files[1].TimesList = files0[1].TimesList

\* A Periodic merge of MaxFiles files gave the first file an axis of
\* MaxSteps periods that it did not have before.
C18_Witness ==
  /\ policy = "Periodic" /\ pc = "done"
  /\ Len(files0) = MaxFiles
  /\ Len(files[1].TimesList) = MaxSteps
  /\ Len(files0[1].TimesList) < MaxSteps
  /\ \E id \in DOMAIN mapIdToResultEvents : Len(mapIdToResultEvents[id]) = MaxSteps

\* A Periodic merge without any event left a non-empty axis as it was.
NoEventAxisKept ==
  /\ policy = "Periodic" /\ pc = "done"
  /\ \A id \in DOMAIN mapIdToResultEvents : mapIdToResultEvents[id] = <<>>
  /\ files[1].TimesList # <<>>

\* The primary entries of the Global group.
GlobalIds == {id \in DOMAIN mapIdToResultEvents : id[2] = "GlobalItem" /\ IsPrimaryId(id)}

\* The periods and values the input files hold for entry id, file by file.
InputPeriodValues(id) ==
  Flatten([k \in 1..Len(files0) |->
             [j \in 1..Len(SeriesOf(files0[k], id)) |->
                [Value |-> SeriesOf(files0[k], id)[j],
                 TimePeriod |-> files0[k].TimesList[j]]]])

\* C19: in a Periodic merge an entry of the Global group needs no Count or
\* Duration companion and none is read or written, whether the files hold
\* one or not: every event of the entry has Count 0 and Duration 0, after
\* the collapse its list holds per period the sum of the input values, and
\* the merge writes the values to the entry's cells and leaves the cells of
\* a Global Count or Duration item as they were.
C19_GlobalEntries ==
  policy = "Periodic" =>
    \A id \in GlobalIds :
      LET l == mapIdToResultEvents[id]
      IN /\ \A i \in 1..Len(l) : l[i].Count = 0 /\ l[i].Duration = 0
         /\ ~(pc = "failed" /\ error = "KeyNotFoundException" /\
              \A k \in 1..Len(files0) : ItemOfId(files0[k], id) # 0
                                        /\ ~LacksCompanion("Periodic", files0[k]))
         /\ Processed =>
              \A i \in 1..Len(l) :
                l[i].Value = SumOver(OfPeriod(InputPeriodValues(id), l[i].TimePeriod),
                                     "Value")
         /\ Processed => Len(l) = Cardinality({InputPeriodValues(id)[i].TimePeriod :
                                                 i \in 1..Len(InputPeriodValues(id))})
         /\ pc = "done" =>
              /\ \A i \in 1..Len(l) : SeriesOf(files[1], id)[i] = l[i].Value
              /\ \A extra \in {"Count", "Duration"} :
                   SeriesOf(files[1], CompanionId(id, extra)) =
                     SeriesOf(files0[1], CompanionId(id, extra))

\* A Periodic merge of MaxFiles files that all hold a Global entry with
\* Count and Duration items is done, two events of one period collapsed.
C19_Witness ==
  /\ policy = "Periodic" /\ pc = "done" /\ Len(files0) = MaxFiles
  /\ \E id \in GlobalIds :
       /\ \A k \in 1..MaxFiles : SeriesOf(files0[k], CompanionId(id, "Count")) # <<>>
       /\ Len(InputPeriodValues(id)) > Len(mapIdToResultEvents[id])
       /\ Len(mapIdToResultEvents[id]) > 0

\* The number of entries of the items before item k.
RECURSIVE Offset(_, _)
Offset(items, k) ==
  IF k <= 1 THEN 0 ELSE Offset(items, k - 1) + items[k - 1].NumberOfElements

ItemKey(dataItem) ==
  <<dataItem.Quantity.Id, dataItem.ItemTypeGroup, dataItem.NumberWithinGroup>>

ItemKeysDiffer(items) ==
  \A i, j \in 1..Len(items) : i # j => ItemKey(items[i]) # ItemKey(items[j])

\* The enumeration holds one entry for every item and element index, in
\* item order then element order.
EnumeratedInOrder ==
  LET items == files0[1].DataItems
  IN /\ Len(dataEntries) = Offset(items, Len(items) + 1)
     /\ \A k \in 1..Len(items) : \A e \in 0..(items[k].NumberOfElements - 1) :
          dataEntries[Offset(items, k) + e + 1] =
            [Item |-> k, ElementIndex |-> e,
             EntryId |-> <<items[k].Quantity.Id, items[k].ItemTypeGroup,
                           items[k].NumberWithinGroup, e>>]

EntryIdsDiffer ==
  \A i, j \in 1..Len(dataEntries) :
    i # j => dataEntries[i].EntryId # dataEntries[j].EntryId

\* C20 as stated: the enumeration of a file's data entries holds one entry
\* for every item and element index in item then element order, no two
\* entries have the same EntryId, and the map built from it has as many
\* keys as there are entries.
C20_EntryIdsUnique ==
  pc # "GetAllDataEntries" =>
    /\ EnumeratedInOrder
    /\ EntryIdsDiffer
    /\ pc = "MergeDataEntries" =>
         Cardinality(DOMAIN mapIdToDataEntry) = Len(dataEntries)

\* C20 (amended): the enumeration holds one entry for every item and element
\* index in item then element order; if no two data items of the file have
\* the same quantity id, group and number within the group, no two entries
\* have the same EntryId and both maps get as many keys as there are
\* entries; otherwise two entries share an EntryId and CreateMaps fails
\* with ArgumentException, no map built.
C20_EntriesEnumerated ==
  pc # "GetAllDataEntries" =>
    /\ EnumeratedInOrder
    /\ ItemKeysDiffer(files0[1].DataItems) <=> EntryIdsDiffer
    /\ (pc # "CreateMaps" /\ ItemKeysDiffer(files0[1].DataItems)) =>
         /\ pc = "MergeDataEntries"
         /\ Cardinality(DOMAIN mapIdToDataEntry) = Len(dataEntries)
         /\ DOMAIN mapIdToResultEvents = DOMAIN mapIdToDataEntry
         /\ \A i \in 1..Len(dataEntries) :
              mapIdToDataEntry[dataEntries[i].EntryId] = dataEntries[i]
    /\ (pc # "CreateMaps" /\ ~ItemKeysDiffer(files0[1].DataItems)) =>
         /\ pc = "failed" /\ error = "ArgumentException"
         /\ mapIdToDataEntry = NoMap /\ mapIdToResultEvents = NoMap

\* The maps were built for a file of MaxItems items with different keys,
\* two of them of the same quantity and one of two elements.
C20_Witness ==
  /\ api = "GetAllDataEntries" /\ pc = "MergeDataEntries"
  /\ Len(files0[1].DataItems) = MaxItems
  /\ files0[1].DataItems[1].NumberOfElements = 2
  /\ files0[1].DataItems[1].Quantity = files0[1].DataItems[2].Quantity
  /\ Cardinality(DOMAIN mapIdToDataEntry) = Len(dataEntries)
  /\ Len(dataEntries) > MaxItems

\* C21: the sibling key keeps the group, the number within the group and the
\* element index of the entry id and takes the quantity id given; built with
\* the id's own quantity id it is the id; building it twice is building it
\* once; two sibling keys are equal exactly when their four components are;
\* and the companion the lookup returns for an entry is an entry of the same
\* file with the same group, number and element index.
C21_SiblingKey ==
  (api = "DataEntryId" /\ pc = "done") =>
    LET id == call.dataEntry.EntryId
        id2 == call.dataEntry2.EntryId
    IN /\ result.Sibling[1] = call.quantityId
       /\ \A c \in 2..4 : result.Sibling[c] = id[c]
       /\ Len(result.Sibling) = 4
       /\ result.Same = id
       /\ result.Nested = result.Sibling
       /\ (result.Sibling = result.Sibling2) <=>
            /\ call.quantityId = call.quantityId2
            /\ \A c \in 2..4 : id[c] = id2[c]
       /\ result.Derived.found =>
            /\ \E k \in 1..Len(dataEntries) : dataEntries[k] = result.Derived.entry
            /\ dataEntries = GetAllDataEntries(files0[1])
            /\ \A c \in 2..4 : result.Derived.entry.EntryId[c] = id[c]
            /\ result.Derived.entry.EntryId[1] = id[1] \o <<"Time">>
            /\ result.Derived.entry.ElementIndex = call.dataEntry.ElementIndex
            /\ LET item == files0[1].DataItems[result.Derived.entry.Item]
                   own == files0[1].DataItems[call.dataEntry.Item]
               IN /\ item.ItemTypeGroup = own.ItemTypeGroup
                  /\ item.NumberWithinGroup = own.NumberWithinGroup

\* The calls were made for element 1 of a primary entry whose companion was
\* found, with a quantity id other than the entry's own, and for a second
\* entry that differs from the first in its element index only.
C21_Witness ==
  /\ api = "DataEntryId" /\ pc = "done"
  /\ call.dataEntry.EntryId[4] = 1
  /\ call.dataEntry.EntryId[1] = Discharge.Id
  /\ call.quantityId # call.dataEntry.EntryId[1]
  /\ call.quantityId = call.quantityId2
  /\ call.dataEntry2.EntryId[4] = 0
  /\ \A c \in 1..3 : call.dataEntry2.EntryId[c] = call.dataEntry.EntryId[c]
  /\ result.Derived.found
  /\ result.Sibling # result.Sibling2
  /\ result.Sibling = result.Derived.entry.EntryId

\* The inputs a regular merge appends: those that are not the first object.
Appended == {i \in 1..Len(refs) : refs[i] # refs[1]}

\* The destination after the inputs from position i on were appended to
\* steps, in caller order: every step but the first of each, at its own time
\* plus the time steps spanned when the input's turn came.
RECURSIVE AppendedFrom(_, _)
AppendedFrom(steps, i) ==
  IF i > Len(paths) THEN steps
  ELSE IF i \notin Appended THEN AppendedFrom(steps, i + 1)
  ELSE LET source == disk0[paths[i]].Steps
           elapsed == steps[Len(steps)].Time
       IN AppendedFrom(
            steps \o [j \in 1..(Len(source) - 1) |->
                        Step(elapsed + source[j + 1].Time, source[j + 1].Data)],
            i + 1)

RECURSIVE SumOfAppended(_)
SumOfAppended(i) ==
  IF i > Len(paths) THEN 0
  ELSE (IF i \in Appended THEN Len(disk0[paths[i]].Steps) - 1 ELSE 0)
       + SumOfAppended(i + 1)

StartsAtZeroAndIncreases(steps) ==
  /\ Len(steps) > 0 => steps[1].Time = 0
  /\ \A j \in 1..(Len(steps) - 1) : steps[j].Time < steps[j + 1].Time

\* C22: a regular merge of k >= 2 files of N1..Nk time steps leaves a
\* destination of N1 + (N2 - 1) + ... + (Nk - 1) time steps: the first
\* file's, then in caller order every step but the first of each other
\* input, at the source step's time plus the time the destination spanned
\* when that input's append began; with inputs that start at 0 and strictly
\* increase, the destination's times strictly increase.
C22_RegularMergeOfMany ==
  (pc = "done" /\ policy = "Regular" /\ Len(files0) >= 2) =>
    LET merged == disk[mergedFileName].Steps
    IN /\ merged = AppendedFrom(disk0[paths[1]].Steps, 2)
       /\ Len(merged) = Len(disk0[paths[1]].Steps) + SumOfAppended(2)
       /\ Len(result.TimesList) = Len(merged)
       /\ (\A i \in 1..Len(paths) : StartsAtZeroAndIncreases(disk0[paths[i]].Steps))
            => StartsAtZeroAndIncreases(merged)

\* Three different files of MaxRegSteps, two and MaxRegSteps time steps, the
\* first and the last of different step lengths, were merged into a new file.
C22_Witness ==
  /\ pc = "done" /\ policy = "Regular" /\ Len(files0) = MaxFiles
  /\ Appended = 2..MaxFiles
  /\ mergedFileName = OutPath
  /\ Len(disk0[paths[1]].Steps) = MaxRegSteps
  /\ Len(disk0[paths[2]].Steps) = 2
  /\ Len(disk0[paths[MaxFiles]].Steps) = MaxRegSteps
  /\ disk0[paths[1]].Steps[2].Time # disk0[paths[MaxFiles]].Steps[2].Time
  /\ Len(disk[OutPath].Steps) > MaxRegSteps + 1

TimePeriodsOf(l) == [i \in 1..Len(l) |-> l[i].TimePeriod]

\* C23: after a Periodic merge the TimePeriods of every non-empty merged
\* list are the merged time axis, so that the bucket written at time-step
\* index i is the bucket of period axis[i].
C23_ListsMatchAxis ==
  (policy = "Periodic" /\ pc = "done") =>
    \A id \in DOMAIN mapIdToResultEvents :
      Len(mapIdToResultEvents[id]) > 0 =>
        TimePeriodsOf(mapIdToResultEvents[id]) = files[1].TimesList

\* Every file holds every primary entry of the first file.
SameEntriesEverywhere ==
  \A id \in DOMAIN mapIdToResultEvents :
    IsPrimaryId(id) => \A k \in 1..Len(files0) : ItemOfId(files0[k], id) # 0

\* What holds of the code: the lists match the axis when every file holds
\* every primary entry of the first file, whatever periods the files cover.
ListsMatchAxisForSameEntries ==
  (policy = "Periodic" /\ pc = "done" /\ SameEntriesEverywhere) =>
    \A id \in DOMAIN mapIdToResultEvents :
      Len(mapIdToResultEvents[id]) > 0 =>
        TimePeriodsOf(mapIdToResultEvents[id]) = files[1].TimesList

\* A finished Periodic merge of files covering different periods, each
\* holding every primary entry of the first.
DifferentPeriodsMerged ==
  /\ policy = "Periodic" /\ pc = "done" /\ SameEntriesEverywhere
  /\ Len(files0) >= 2
  /\ files0[1].TimesList # files0[2].TimesList
  /\ Len(files[1].TimesList) = MaxSteps
  /\ Len(files0[1].TimesList) = 1

\* A finished Periodic merge that wrote the bucket of one period at an index
\* where the axis holds another period.
BucketUnderOtherPeriod ==
  /\ policy = "Periodic" /\ pc = "done"
  /\ \E id \in DOMAIN mapIdToResultEvents :
       \E i \in 1..Len(mapIdToResultEvents[id]) :
         /\ i <= Len(files[1].TimesList)
         /\ mapIdToResultEvents[id][i].TimePeriod # files[1].TimesList[i]

\* A step that ends the merge with an exception in a stage before
\* UpdateTimesList leaves every file as it was handed in.
AbortStep ==
  (/\ pc \in {"Create", "CreateMaps", "MergeDataEntries", "SortResults", "ProcessResults"}
   /\ pc' = "failed") =>
    /\ files' = files0
    /\ error' \in {"Exception", "NotSupportedException", "ArgumentException",
                   "KeyNotFoundException", "ArgumentOutOfRangeException"}
    /\ result' = NoResult

\* C24: an LTS merge that aborts in a stage before UpdateTimesList leaves
\* the destination unchanged: the first file's data items, their time-step
\* counts and its time axis are as they were before the call.
C24_AbortLeavesDestination == [][AbortStep]_vars

\* The merge aborted in MergeDataEntries at the second file, after the
\* events of the first were read, and the first file is as it was.
C24_Witness ==
  /\ api = "LTS" /\ pc = "failed" /\ fileIndex = 2
  /\ error = "KeyNotFoundException"
  /\ \E id \in DOMAIN mapIdToResultEvents : Len(mapIdToResultEvents[id]) > 0
  /\ Len(files0[1].TimesList) > 0
  /\ files[1] = files0[1]

\* The merge aborted on a duplicate EntryId, in CreateMaps or in the map of
\* a later file.
AbortedOnDuplicate ==
  /\ api = "LTS" /\ pc = "failed" /\ error = "ArgumentException"
  /\ fileIndex = 2

AbortedOnUnknownEntry ==
  /\ api = "LTS" /\ pc = "failed" /\ error = "KeyNotFoundException"
  /\ \A k \in 1..Len(files0) : ~LacksCompanion(policy, files0[k])

\* The entry ids of file f, read from its data items.
EntryIdsOf(f) ==
  UNION { { <<f.DataItems[i].Quantity.Id, f.DataItems[i].ItemTypeGroup,
              f.DataItems[i].NumberWithinGroup, e>> :
              e \in 0..(f.DataItems[i].NumberOfElements - 1) } :
          i \in 1..Len(f.DataItems) }

\* The companions the policy reads with a primary entry.
ExtrasOf(pol, id) ==
  IF pol = "Extreme" THEN {"Time"}
  ELSE IF id[2] = "GlobalItem" THEN {}
  ELSE {"Count", "Duration"}

\* The primary entries of file f, companions present, that the first file
\* does not hold.
UnknownPrimaries(pol, f) ==
  { id \in EntryIdsOf(f) \ EntryIdsOf(files0[1]) :
      /\ ~IsDerivedQuantity(pol, f.DataItems[ItemOfId(f, id)].Quantity)
      /\ \A extra \in ExtrasOf(pol, id) : CompanionId(id, extra) \in EntryIdsOf(f) }

\* C25: the event-list map holds the entries of the first file only; a
\* later file with a primary entry, companions present, that the first file
\* does not hold ends the merge in MergeDataEntries with the lookup error:
\* the merge never gets past that file and the entry gets no list.
C25_UnknownEntryAborts ==
  (api = "LTS" /\ policy # "none") =>
    /\ mapIdToResultEvents # NoMap => DOMAIN mapIdToResultEvents = EntryIdsOf(files0[1])
    /\ \A k \in 2..Len(files0) :
         UnknownPrimaries(policy, files0[k]) # {} =>
           /\ pc \in {"CreateMaps", "MergeDataEntries", "failed"}
           /\ fileIndex <= k
           /\ (pc = "failed" /\ fileIndex = k
               /\ ~HasDuplicateIds(GetAllDataEntries(files0[k]))) =>
                error = "KeyNotFoundException"

\* A merge whose first file has events ended with the lookup error at a
\* second file that holds a primary entry of the Global group, with its
\* companion, unknown to the first file; the events the second file holds
\* for the entries it shares with the first were read before.
C25_Witness ==
  /\ api = "LTS" /\ policy = "Extreme" /\ pc = "failed" /\ fileIndex = 2
  /\ error = "KeyNotFoundException"
  /\ ~LacksCompanion(policy, files0[2])
  /\ UnknownPrimaries(policy, files0[2]) # {}
  /\ Len(files0[1].TimesList) > 0 /\ Len(files0[2].TimesList) > 0
  /\ \E id \in DOMAIN mapIdToResultEvents :
       Len(mapIdToResultEvents[id]) = Len(files0[1].TimesList) + Len(files0[2].TimesList)

\* The permutations of 1..k.
OrdersOf(k) ==
  { p \in [1..k -> 1..k] : \A i, j \in 1..k : i # j => p[i] # p[j] }

\* The outer foreach of MergeDataEntries over the list fs, from file k on.
RECURSIVE MergeAllFrom(_, _, _, _)
MergeAllFrom(pol, fs, k, events) ==
  IF k > Len(fs) THEN Returned(events)
  ELSE LET r == MergeResultData(pol, fs[k], events)
       IN IF r.error # "none" THEN r
          ELSE MergeAllFrom(pol, fs, k + 1, r.events)

\* What the lists of a map hold, as the policy's events.
EventsOf(pol, events) ==
  [id \in DOMAIN events |->
     [i \in 1..Len(events[id]) |->
        IF pol = "Extreme" THEN ValueTime(events[id][i]) ELSE Bucket(events[id][i])]]

\* The outcomes of the stages of Merge up to UpdateTimesList for the list of
\* files fs: the merged lists and the merged time axis.
MergeOutcomes(pol, fs) ==
  LET entries == GetAllDataEntries(fs[1])
      merged == MergeAllFrom(pol, fs, 1, CreateMapIdToResultEvents(entries))
  IN IF merged.error # "none" THEN {[error |-> merged.error]}
     ELSE { LET processed == IF pol = "Extreme" THEN ProcessResultsExtreme(sorted)
                             ELSE ProcessResultsPeriodic(sorted)
                axis == IF pol = "Extreme"
                        THEN UpdateTimesListExtreme(fs[1].TimesList, entries, processed)
                        ELSE UpdateTimesListPeriodic(fs[1].TimesList, entries, processed)
            IN [error |-> axis.error, events |-> EventsOf(pol, processed),
                timesList |-> axis.timesList] :
            sorted \in IF pol = "Extreme" THEN SortResultsExtreme(merged.events)
                       ELSE SortResultsPeriodic(merged.events) }

\* Every file holds the same entries, each primary entry with its
\* companions and no entry twice.
SameEntriesWithCompanions ==
  /\ \A k \in 1..Len(files0) :
       /\ EntryIdsOf(files0[k]) = EntryIdsOf(files0[1])
       /\ ~LacksCompanion(policy, files0[k])
       /\ ~HasDuplicateIds(GetAllDataEntries(files0[k]))

\* C26: when every input file holds the same entries with their companions,
\* the merged list of every entry and the merged time axis are the same for
\* every order of the input files.
C26_OrderIndependent ==
  (api = "LTS" /\ pc = "done" /\ SameEntriesWithCompanions) =>
    \A p \in OrdersOf(Len(files0)) :
      MergeOutcomes(policy, [i \in 1..Len(files0) |-> files0[p[i]]]) =
        { [error |-> "none", events |-> EventsOf(policy, mapIdToResultEvents),
           timesList |-> files[1].TimesList] }

\* A finished merge of MaxFiles files with events that differ from file to
\* file, one file with its items in another order, so that another order of
\* the files hands the merge another first file and other lists to sort.
C26_Witness ==
  /\ api = "LTS" /\ pc = "done" /\ SameEntriesWithCompanions
  /\ Len(files0) = MaxFiles
  /\ files0[1].DataItems # files0[2].DataItems
  /\ files0[2].DataItems # files0[MaxFiles].DataItems
  /\ files0[1].DataItems[1].Quantity # files0[2].DataItems[1].Quantity
  /\ \A k \in 1..MaxFiles : Len(files0[k].TimesList) > 0

\* The events file f holds for primary entry id, as the policy reads them.
HeldEvents(pol, f, id) ==
  [j \in 1..Len(SeriesOf(f, id)) |->
     IF pol = "Extreme"
     THEN [Value |-> SeriesOf(f, id)[j],
           Time |-> SeriesOf(f, CompanionId(id, "Time"))[j]]
     ELSE [Value |-> SeriesOf(f, id)[j],
           Count |-> IF id[2] = "GlobalItem" THEN 0
                     ELSE SeriesOf(f, CompanionId(id, "Count"))[j],
           Duration |-> IF id[2] = "GlobalItem" THEN 0
                        ELSE SeriesOf(f, CompanionId(id, "Duration"))[j],
           TimePeriod |-> f.TimesList[j]]]

\* The events the files held for entry id when the last call began.
HeldAtCall(id) ==
  Flatten([k \in 1..Len(files1) |-> HeldEvents(policy, files1[k], id)])

\* No file but the first holds an event of a primary entry of the first.
OthersHoldNoEvent ==
  \A k \in 2..Len(files0) : \A id \in DOMAIN mapIdToResultEvents :
    IsPrimaryId(id) => SeriesOf(files0[k], id) = <<>>

\* C27 as stated: a second call of Merge() on the same merger leaves the
\* destination as the first call left it: values, companions and time axis.
C27_SecondMergeChangesNothing ==
  (api = "LTS" /\ pc = "done" /\ merges >= 2) => files[1] = files1[1]

\* The buckets the other files hold add nothing to what the first file held
\* when the last call began: for every bucket of a primary entry of the first
\* file, the sums over the files of the bucket's period, as floats, are the
\* bucket's own fields.
OthersAddNothing ==
  \A id \in DOMAIN mapIdToResultEvents :
    IsPrimaryId(id) =>
      LET held == HeldEvents("Periodic", files1[1], id)
      IN \A k \in 1..Len(held) :
           LET ofPeriod == OfPeriod(HeldAtCall(id), held[k].TimePeriod)
           IN /\ FloatOf(SumOver(ofPeriod, "Value")) = held[k].Value
              /\ FloatOf(SumOver(ofPeriod, "Count")) = held[k].Count
              /\ FloatOf(SumOver(ofPeriod, "Duration")) = held[k].Duration

\* C27 (amended): a further call of Merge() merges what the first file holds
\* after the previous call, once, with the events of every other file,
\* which are read again. The destination is left as the previous call left
\* it when no other file holds an event; an Extreme merge leaves it so in
\* that case only, a Periodic merge also when the other files' buckets add
\* nothing to the sums the first file holds, and in no other case.
C27_SecondMergeReadsOthersAgain ==
  (api = "LTS" /\ pc = "done" /\ merges >= 2) =>
    /\ \A k \in 2..Len(files) : files[k] = files0[k] /\ files1[k] = files0[k]
    /\ OthersHoldNoEvent => files[1] = files1[1]
    /\ policy = "Extreme" => (OthersHoldNoEvent <=> files[1] = files1[1])
    /\ policy = "Periodic" => (OthersAddNothing <=> files[1] = files1[1])
    /\ \A id \in DOMAIN mapIdToResultEvents :
         IsPrimaryId(id) =>
           IF policy = "Extreme"
           THEN /\ IsPermutationOf(MergedEvents(id), HeldAtCall(id))
                /\ ExtremeOrdered(MergedEvents(id))
           ELSE \A k \in 1..Len(HeldAtCall(id)) :
                  LET p == HeldAtCall(id)[k].TimePeriod
                      buckets == OfPeriod(mapIdToResultEvents[id], p)
                  IN /\ Len(buckets) = 1
                     /\ buckets[1].Value = SumOver(OfPeriod(HeldAtCall(id), p), "Value")
                     /\ buckets[1].Count = SumOver(OfPeriod(HeldAtCall(id), p), "Count")
                     /\ buckets[1].Duration =
                          SumOver(OfPeriod(HeldAtCall(id), p), "Duration")

\* A second call of a Periodic merge read again a second file whose buckets
\* are all zero, and left the first file as the first call left it.
SecondMergeOfZeroBuckets ==
  /\ api = "LTS" /\ policy = "Periodic" /\ pc = "done" /\ merges = 2
  /\ Len(files0) = 2
  /\ Len(files0[1].TimesList) > 0 /\ Len(files0[2].TimesList) > 0
  /\ ~OthersHoldNoEvent
  /\ files0[1].DataItems[1].TimeData[1][1] > 0
  /\ files[1] = files1[1]

\* A second call returned after merging two files that both hold events:
\* the first file holds more time steps than after the first call.
C27_Witness ==
  /\ api = "LTS" /\ policy = "Extreme" /\ pc = "done" /\ merges = 2
  /\ Len(files0) = 2
  /\ Len(files0[1].TimesList) > 0 /\ Len(files0[2].TimesList) > 0
  /\ Len(files[1].TimesList) =
       Len(files0[1].TimesList) + 2 * Len(files0[2].TimesList)
  /\ Len(files1[1].TimesList) = Len(files0[1].TimesList) + Len(files0[2].TimesList)

\* A second call of Merge() on a single file left it as it was.
SecondMergeOfOneFile ==
  /\ api = "LTS" /\ pc = "done" /\ merges = 2 /\ Len(files0) = 1
  /\ Len(files0[1].TimesList) = MaxSteps
  /\ files[1] = files1[1]

\* A second call of a Periodic merge added the buckets of the second file
\* to the sums a second time.
SecondMergePeriodicAddsAgain ==
  /\ api = "LTS" /\ policy = "Periodic" /\ pc = "done" /\ merges = 2
  /\ Len(files0) = 2
  /\ files0[1].TimesList = files0[2].TimesList /\ Len(files0[1].TimesList) = 1
  /\ files[1].DataItems[1].TimeData[1][1] =
       files0[1].DataItems[1].TimeData[1][1] + 2 * files0[2].DataItems[1].TimeData[1][1]

\* C28 as stated: whatever the destination path, no input file is
\* overwritten or extended before the merge has read it, and with a
\* destination that is no input's path no input file is modified at all.
C28_InputsReadAsHandedIn ==
  policy = "Regular" =>
    /\ \A i \in Appended :
         (pc \in {"Merge", "CopyFileIfNeeded", "Foreach"} /\ fileIndex <= i) =>
           disk[paths[i]] = disk0[paths[i]]
    /\ (\A i \in 1..Len(paths) : paths[i] # mergedFileName) =>
         \A i \in 1..Len(paths) : disk[paths[i]] = disk0[paths[i]]

\* What holds of the code: when the destination is not the path of an input
\* the merge appends (it is a new path, or the first input's path with no
\* other input loaded from it), no appended input is modified at any time,
\* the first input is modified only as the destination, and the merge
\* appends every input with the content it had when the merge was called;
\* with a destination that is no input's path no input file is modified.
InputsKeptUnlessDestination ==
  (policy = "Regular" /\ ~AppendsToItself(refs, paths, mergedFileName)) =>
    /\ \A i \in Appended : disk[paths[i]] = disk0[paths[i]]
    /\ \A i \in 1..Len(paths) :
         paths[i] # mergedFileName => disk[paths[i]] = disk0[paths[i]]
    /\ \A j \in 1..Len(disk0[paths[1]].Steps) :
         pc \in {"Foreach", "AppendToFile", "done"} =>
           disk[mergedFileName].Steps[j] = disk0[paths[1]].Steps[j]
    /\ pc = "done" => disk[mergedFileName].Steps = AppendedFrom(disk0[paths[1]].Steps, 2)

\* A finished merge of MaxFiles different files into the first input's
\* file: the first file grew, the others are as they were.
MergedIntoFirstInput ==
  /\ policy = "Regular" /\ pc = "done" /\ Len(files0) = MaxFiles
  /\ Appended = 2..MaxFiles
  /\ mergedFileName = paths[1]
  /\ Len(disk[paths[1]].Steps) > Len(disk0[paths[1]].Steps) + 1
  /\ \A i \in 2..MaxFiles : disk[paths[i]] = disk0[paths[i]]

\* CopyFileIfNeeded has overwritten the second input, the destination, with
\* the first before the merge read it.
OverwrittenBeforeRead ==
  /\ policy = "Regular" /\ pc = "Foreach" /\ fileIndex = 1
  /\ Len(paths) >= 2
  /\ mergedFileName = paths[2] /\ refs[2] # refs[1]
  /\ disk[paths[2]] = disk0[paths[1]]
  /\ disk[paths[2]] # disk0[paths[2]]

\* The time steps the input files hold together for the item of entry id.
RECURSIVE StepsHeldFrom(_, _)
StepsHeldFrom(id, k) ==
  IF k > Len(files0) THEN 0
  ELSE Len(SeriesOf(files0[k], id)) + StepsHeldFrom(id, k + 1)

NoDeleteValue(dataItem) ==
  \A j \in 1..Len(dataItem.TimeData) : \A e \in 1..dataItem.NumberOfElements :
    dataItem.TimeData[j][e] # DOUBLE_DELETE_VALUE

\* C29: after an Extreme merge of files that hold the same entries, every
\* primary entry with its Time companion, the lists of all elements of a
\* data item are as long as the time steps the input files hold for the
\* item together; the item and its Time companion end with that many time
\* steps, none of their cells a delete value, and the merged time axis is
\* at least that long.
C29_ExtremeItemsFilled ==
  (api = "LTS" /\ policy = "Extreme" /\ pc = "done" /\ SameEntriesWithCompanions) =>
    \A id \in DOMAIN mapIdToResultEvents :
      IsPrimaryId(id) =>
        LET total == StepsHeldFrom(id, 1)
            item == files[1].DataItems[ItemOfId(files[1], id)]
            itemTime == files[1].DataItems[ItemOfId(files[1], CompanionId(id, "Time"))]
        IN /\ Len(mapIdToResultEvents[id]) = total
           /\ \A e \in 0..(item.NumberOfElements - 1) :
                Len(mapIdToResultEvents[<<id[1], id[2], id[3], e>>]) = total
           /\ NumberOfTimeSteps(item) = total
           /\ NumberOfTimeSteps(itemTime) = total
           /\ NoDeleteValue(item) /\ NoDeleteValue(itemTime)
           /\ total <= Len(files[1].TimesList)

\* A finished Extreme merge of MaxFiles files with the same entries that
\* expanded an item of two elements from one time step to MaxEvents.
C29_Witness ==
  /\ api = "LTS" /\ policy = "Extreme" /\ pc = "done" /\ SameEntriesWithCompanions
  /\ Len(files0) = MaxFiles
  /\ \E m \in 1..Len(files0[1].DataItems) :
       /\ ~IsDerivedQuantityExtreme(files0[1].DataItems[m].Quantity)
       /\ files0[1].DataItems[m].NumberOfElements = 2
       /\ NumberOfTimeSteps(files0[1].DataItems[m]) = 1
       /\ NumberOfTimeSteps(files[1].DataItems[m]) = MaxEvents
       /\ NoDeleteValue(files[1].DataItems[m])

\* No entry has an event and the merge is past ProcessResults.
NoEventAfterMerging ==
  /\ \A id \in DOMAIN mapIdToResultEvents : mapIdToResultEvents[id] = <<>>
  /\ \/ pc \in {"UpdateResultData", "done"}
     \/ pc = "failed" /\ error = "InvalidOperationException"

\* With entries in the first file the axis becomes empty and no value is
\* written; without any entry UpdateTimesList fails.
EmptyAxisOrFailure ==
  /\ Len(dataEntries) > 0 =>
       /\ pc \in {"UpdateResultData", "done"}
       /\ files[1].TimesList = <<>>
       /\ files[1].DataItems = files0[1].DataItems
  /\ Len(dataEntries) = 0 =>
       /\ pc = "failed" /\ error = "InvalidOperationException"
       /\ result = NoResult

\* C30 as stated: when no entry has an event after merging, the Extreme
\* policy makes the axis empty and writes no value if the first file has an
\* entry, and fails in UpdateTimesList if it has none; in both cases the
\* destination's previous axis is not kept.
C30_AxisNeverKept ==
  (api = "LTS" /\ policy = "Extreme" /\ NoEventAfterMerging) =>
    /\ EmptyAxisOrFailure
    /\ files0[1].TimesList # <<>> => files[1].TimesList # files0[1].TimesList

\* C30 (amended): when no entry has an event after merging, the Extreme
\* policy makes the axis empty and writes no value if the first file has an
\* entry, so that a previous axis is not kept; if the first file has no
\* entry, UpdateTimesList fails before the axis is assigned and the
\* destination keeps its previous axis.
C30_EmptyAxisOrFailedUntouched ==
  (api = "LTS" /\ policy = "Extreme" /\ NoEventAfterMerging) =>
    /\ EmptyAxisOrFailure
    /\ (Len(dataEntries) > 0 /\ files0[1].TimesList # <<>>) =>
         files[1].TimesList # files0[1].TimesList
    /\ Len(dataEntries) = 0 => files[1] = files0[1]

\* An Extreme merge without any event finished on a first file that holds
\* entries and had a non-empty axis: the axis is empty now.
C30_Witness ==
  /\ api = "LTS" /\ policy = "Extreme" /\ pc = "done"
  /\ \A id \in DOMAIN mapIdToResultEvents : mapIdToResultEvents[id] = <<>>
  /\ Len(dataEntries) > 0
  /\ Len(files0) >= 2
  /\ Len(files0[1].TimesList) = MaxSteps
  /\ files[1].TimesList = <<>>
  /\ files[1].DataItems = files0[1].DataItems

\* An Extreme merge failed in UpdateTimesList on a first file without any
\* entry, whose non-empty axis is as it was.
FailedWithAxisKept ==
  /\ api = "LTS" /\ policy = "Extreme" /\ pc = "failed"
  /\ error = "InvalidOperationException"
  /\ files0[1].TimesList # <<>>
  /\ files[1].TimesList = files0[1].TimesList

====
